---- MODULE Spec2Model ----
(***************************************************************************)
(* Verification model of the CORE-MATH binary80 kernels (cr_cbrtl,         *)
(* cr_exp2l, cr_hypotl) and of their test harnesses (binary32              *)
(* check_exhaustive, binary80 hypot/log2 check_special).                   *)
(*                                                                         *)
(* The x87 double-extended format is modelled with its structure intact    *)
(* (explicit integer bit, sign+exponent word e, significand word m) but    *)
(* with scaled widths: the significand has 2*HalfBits bits (64 in the      *)
(* source, HalfBits = 32) and the exponent field ExpBits bits (15 in the   *)
(* source).  Every constant of the source is written as the same function  *)
(* of the widths: 0x7fff = 2^ExpBits-1, 0x3fff = 2^(ExpBits-1)-1,          *)
(* 1<<63 = 2^(MBits-1), 32 = HalfBits, 128 = 2*MBits, ...                  *)
(***************************************************************************)
EXTENDS Integers, Naturals, Sequences, FiniteSets, TLC

\* half the significand width (source: 32, the threshold "d >= 32")
HalfBits == 2
\* width of the exponent field (source: 15)
ExpBits == 4

MBits == 2 * HalfBits
WBits == 2 * MBits
TwoM == 2 ^ MBits
TwoW == 2 ^ WBits
MSB == 2 ^ (MBits - 1)
QBIT == 2 ^ (MBits - 2)
EMASK == 2 ^ ExpBits - 1
SIGN == 2 ^ ExpBits
BIAS == 2 ^ (ExpBits - 1) - 1

\* rounding modes, indexed as rnd1[] / rnd2[] of the harnesses
RNDN == 0
RNDZ == 1
RNDU == 2
RNDD == 3
Modes == {RNDN, RNDZ, RNDU, RNDD}

\* sticky exception flags of the floating-point environment
FlagNames == {"inexact", "underflow", "overflow", "invalid", "divbyzero"}
Checked3 == {"inexact", "underflow", "overflow"}

(***************************************************************************)
(* b80u80_t / b96u96_u : the two words of a long double.                   *)
(***************************************************************************)
b80u80_t == [m : 0 .. TwoM - 1, e : 0 .. 2 * SIGN - 1]

ExpField(v) == v.e % SIGN
SignBit(v) == v.e \div SIGN

\* encodings produced by the hardware and by get_random: the integer bit is
\* set exactly when the exponent field is non-zero
Canonical(v) == (ExpField(v) = 0) <=> (v.m < MSB)
LongDoubles == {v \in b80u80_t : Canonical(v)}

IsInf(v) == ExpField(v) = EMASK /\ v.m = MSB
IsNaN(v) == ExpField(v) = EMASK /\ v.m # MSB
IsSNaN(v) == IsNaN(v) /\ (v.m \div QBIT) % 2 = 0
IsQNaN(v) == IsNaN(v) /\ (v.m \div QBIT) % 2 = 1
IsZero(v) == ExpField(v) = 0 /\ v.m = 0
IsFinite(v) == ExpField(v) # EMASK
IsSpecial(v) == IsNaN(v) \/ IsInf(v) \/ IsZero(v)

PlusInf == [m |-> MSB, e |-> EMASK]
PlusZero == [m |-> 0, e |-> 0]
\* 0x1.fffffffffffffffep+16383L
HUGE == [m |-> TwoM - 1, e |-> EMASK - 1]

\* a kernel call: position, kernel, arguments, rounding mode, flag register
\* on entry, and what the call returned
VARIABLES kpc, fn, ax, ay, mode, fl0, kr

\* errno of the thread calling the kernel
VARIABLES kerrno

\* a repeated kernel call: what the first call returned, and the values its
\* polynomial or Newton stage computed
VARIABLES kr1, kout

\* a parallel random-sampling loop: harness, iterations not yet started,
\* position of each worker thread, the generator states Seed[] (hypot) and
\* of rand() (log2) as the number of draws taken from them, the value
\* get_random returned last and the thread it returned it to, and the
\* accesses made to generator states inside the loop
VARIABLES sprog, nleft, tpc, Seed, randst, gx, acc

\* a call of check_extended: position, argument x, the locals r, e (cee),
\* emin and emax, the exponent frexpl stored, the hardware rounding mode,
\* and the calls of check made so far (exponent f and argument ldexpl (r, f))
VARIABLES cepc, cex, cer, cee, emin, emax, efrexp, cernd, checked

\* the argument reduction of a call of cr_exp2l, at the width of the source:
\* position, the argument x (v.m as four 16-bit limbs, v.e), and what the
\* call did with it (the branch taken, the shift s, k and the table indices
\* of fast_path and of accurate_path)
VARIABLES rpc, rx, rr

\* a harness process: program, position in main/doloop, loop indices (hi, and
\* nloop for the loop variable n), the globals keep, rnd (rndopt) and
\* underflow_before (ub), exit status, "all ok" printed
VARIABLES prog, hpc, hi, nloop, keep, rndopt, ub, status, allok

\* the environment of the harness process: MPFR flags, fenv flags, errno,
\* MPFR and fenv rounding modes
VARIABLES mpf, fef, err, refrnd, fernd

\* the running per-input check: phase, argument, oracle and kernel results,
\* saved inexact flags, failure messages printed by the last check
VARIABLES dph, dx, dy, dz, inex_y, inex_z, report

\* history: mismatch detected so far, number of doit calls per bit pattern,
\* flags and errno raised by the oracle and kernel calls of the running check
VARIABLES failed, cnt, gy, gz, gerr

\* a call of is_equal: harness, operands, result
VARIABLES eqh, eqa, eqb, eqr

kvars == <<kpc, fn, ax, ay, mode, fl0, kr, kerrno>>
pvars == <<prog, hpc, hi, nloop, keep, rndopt, ub, status, allok>>
evars == <<mpf, fef, err, refrnd, fernd>>
dvars == <<dph, dx, dy, dz, inex_y, inex_z, report>>
gvars == <<failed, cnt, gy, gz, gerr>>
hvars == <<pvars, evars, dvars, gvars>>
qvars == <<eqh, eqa, eqb, eqr>>
svars == <<sprog, nleft, tpc, Seed, randst, gx, acc>>
cvars == <<cepc, cex, cer, cee, emin, emax, efrexp, cernd, checked>>
rvars == <<rpc, rx, rr>>
yvars == <<svars, cvars, rvars>>
xvars == <<kr1, kout, yvars>>
vars == <<kvars, hvars, qvars, xvars>>

(***************************************************************************)
(* Integer helpers used by the kernels.                                    *)
(***************************************************************************)
\* __builtin_clzll on a non-zero MBits-bit word
RECURSIVE clz(_)
clz(m) == IF m >= MSB THEN 0 ELSE 1 + clz(2 * m)

\* floor(sqrt(n))
RECURSIVE isqrtBits(_, _, _)
isqrtBits(n, t, b) ==
  IF b < 0 THEN t
  ELSE IF (t + 2 ^ b) * (t + 2 ^ b) <= n
  THEN isqrtBits(n, t + 2 ^ b, b - 1)
  ELSE isqrtBits(n, t, b - 1)
isqrt(n) == isqrtBits(n, 0, MBits)

\* outcome of "1.0 + eps > 1.0" (and of "z + 0x1p-53 > z"): the sum rounds to
\* the next double above under FE_UPWARD always, under FE_TONEAREST only when
\* the addend is above the midpoint or the tie goes to the even neighbour
AddRoundsUp(rnd, nearestUp) == rnd = RNDU \/ (rnd = RNDN /\ nearestUp)

\* errno after a kernel call entered with errno = before; e is the value the
\* call assigns, "0" when it assigns none
KernelErrno(before, e) == IF e = "0" THEN before ELSE e

\* value returned by a kernel call together with the flag register after it
\* and the intermediate quantities of cr_hypotl (0 where a path has none)
Ret(f, fl, path) ==
  [f |-> f, fl |-> fl, path |-> path,
   d |-> 0, hh |-> 0, ll |-> 0, th |-> 0, r |-> 0, xexp |-> 0, exact |-> FALSE,
   nf |-> {}, err |-> "0",
   hh1 |-> 0, ll1 |-> 0, ovf |-> FALSE, xexp1 |-> 0, k |-> 0, th1 |-> 0]

(***************************************************************************)
(* x87 addition x + y when an operand is a NaN: the result is the quieted  *)
(* NaN operand (the one with the larger significand when both are NaN);    *)
(* a signaling operand raises invalid.                                     *)
(***************************************************************************)
Quiet(v) == [m |-> IF (v.m \div QBIT) % 2 = 1 THEN v.m ELSE v.m + QBIT, e |-> v.e]

FAddNaN(x, y) ==
  IF IsNaN(x) /\ IsNaN(y)
  THEN Quiet(IF Quiet(y).m > Quiet(x).m THEN y ELSE x)
  ELSE IF IsNaN(x) THEN Quiet(x) ELSE Quiet(y)

FAddNaNFlags(x, y) == IF IsSNaN(x) \/ IsSNaN(y) THEN {"invalid"} ELSE {}

(***************************************************************************)
(* hypotl.c                                                                *)
(***************************************************************************)
\* is_nan (b80u80_t s): (e & 0x7fff) == 0x7fff && (m << 1) != 0
is_nan(s) == ExpField(s) = EMASK /\ (2 * s.m) % TwoM # 0

\* is_snan (b80u80_t s)
is_snan(s) ==
  LET m == (2 * s.m) % TwoM
  IN ExpField(s) = EMASK /\ m # 0 /\ m \div MSB = 0

\* HypotNaNInf without the precedence of the infinity over a quiet NaN
HypotNaNInf_Propagate(x, y, x_exp, y_exp, flag) ==
  IF is_nan(x) \/ is_nan(y)
  THEN Ret(FAddNaN(x, y), flag \cup FAddNaNFlags(x, y), "nan")
  ELSE Ret(PlusInf, flag \cup {"divbyzero"}, "inf")

\* lines 175-192: x or y is NaN or Inf (x_exp == 0x4000)
HypotNaNInf(x, y, x_exp, y_exp, flag) ==
  IF is_snan(x) \/ is_snan(y)
  THEN Ret(FAddNaN(x, y), flag \cup FAddNaNFlags(x, y), "nan")
  ELSE IF is_nan(x) \/ is_nan(y)
  THEN IF is_nan(x) /\ is_nan(y)
       THEN Ret(FAddNaN(x, y), flag \cup FAddNaNFlags(x, y), "nan")
       ELSE IF x_exp = BIAS + 1 /\ y_exp = BIAS + 1
       THEN Ret(PlusInf, flag \cup {"divbyzero"}, "inf")
       ELSE Ret(FAddNaN(x, y), flag \cup FAddNaNFlags(x, y), "nan")
  ELSE Ret(PlusInf, flag \cup {"divbyzero"}, "inf")

\* HypotZero returning x itself, sign bit included
HypotZero_KeepSign(sx, x_exp, flag) ==
  IF x_exp = -BIAS /\ sx.m = 0
  THEN Ret(PlusZero, flag, "zero")
  ELSE Ret(sx, flag, "zero")

\* lines 195-205: y = 0
HypotZero(sx, x_exp, flag) ==
  IF x_exp = -BIAS /\ sx.m = 0
  THEN Ret(PlusZero, flag, "zero")
  ELSE Ret([m |-> sx.m, e |-> sx.e % SIGN], flag, "zero")

\* lines 230-255: d >= 32, |y| < ulp(x); sx.m is the normalised significand,
\* sx.e still the exponent word of the argument
HypotFar(sx, sy, d, rnd, flag) ==
  LET yy == sy.m * sy.m
      h == yy \div TwoM
      l == yy % TwoM
      m == sx.m
      \* z = 0x1.0000000000001p+0 (ONE_FOURTH = 2^62)
      zodd == d = HalfBits /\ (h > m \/ (h = m /\ l > QBIT))
      e == sx.e % SIGN
      up == AddRoundsUp(rnd, zodd)
      m1 == IF up THEN (sx.m + 1) % TwoM ELSE sx.m
      wrap == up /\ m1 = 0
      f == [m |-> IF wrap THEN MSB ELSE m1,
            e |-> IF wrap THEN (e + 1) % (2 * SIGN) ELSE e]
  IN [Ret(f, flag \cup {"inexact"}, "far") EXCEPT !.d = d]

\* lines 271-283: x_exp >= 0x3fff, potential overflow; HT = 2^128 - 2^64
HT == (TwoM - 1) * TwoM

HypotOverflows(x_exp, hh, ll) ==
  x_exp >= BIAS + 1 \/ (x_exp = BIAS /\ (hh > HT \/ (hh = HT /\ ll > 0)))

\* HUGE + HUGE and HUGE + 0x1p+16319L in the active rounding mode
HypotOverflow(x_exp, rnd, flag) ==
  IF rnd \in {RNDN, RNDU}
  THEN Ret(PlusInf, flag \cup {"overflow", "inexact"}, "overflow")
  ELSE IF x_exp >= BIAS + 1
  THEN Ret(HUGE, flag \cup {"overflow", "inexact"}, "overflow")
  ELSE Ret(HUGE, flag \cup {"inexact"}, "overflow")

\* the correction step without the case th too large
HypotCorrect_NoDecrement(hh, th) ==
  LET r == (hh - th * th) % TwoW
  IN IF r >= 2 * th + 1
     THEN [r |-> (r - (2 * th + 1)) % TwoW, th |-> th + 1]
     ELSE [r |-> r, th |-> th]

\* lines 343-357: r = hh - th^2 and the single correction of th
HypotCorrect(hh, th) ==
  LET r == (hh - th * th) % TwoW
  IN IF r \div (TwoW \div 2) # 0
     THEN [r |-> (r + 2 * th - 1) % TwoW, th |-> th - 1]
     ELSE IF r >= 2 * th + 1
     THEN [r |-> (r - (2 * th + 1)) % TwoW, th |-> th + 1]
     ELSE [r |-> r, th |-> th]

\* HypotRound without set_flags (flag) in the exact case
HypotRound_NoRestore(hh, ll, c, x_exp, d, rnd, flag, nf) ==
  LET r == c.r
      th == c.th
      exact == r = 0 /\ ll = 0
      thres == 2 ^ (WBits - 2)
      nearestUp == r > th \/ (r = th /\ (ll > thres \/ (ll = thres /\ th % 2 = 1)))
      up == ~exact /\ AddRoundsUp(rnd, nearestUp)
      e0 == (x_exp + BIAS) % (2 * SIGN)
      m0 == th % TwoM
      m1 == IF up THEN (m0 + 1) % TwoM ELSE m0
      wrap == up /\ m1 = 0
      f == [m |-> IF wrap THEN MSB ELSE m1,
            e |-> IF wrap THEN (e0 + 1) % (2 * SIGN) ELSE e0]
  IN [f |-> f,
      fl |-> IF exact THEN flag \cup nf ELSE flag \cup nf \cup {"inexact"},
      path |-> "general", d |-> d, hh |-> hh, ll |-> ll, th |-> th, r |-> r,
      xexp |-> x_exp, exact |-> exact, nf |-> nf, err |-> "0",
      hh1 |-> 0, ll1 |-> 0, ovf |-> FALSE, xexp1 |-> 0, k |-> 0, th1 |-> 0]

\* HypotRound rounding to nearest by truncation
HypotRound_Truncate(hh, ll, c, x_exp, d, rnd, flag, nf) ==
  LET r == c.r
      th == c.th
      exact == r = 0 /\ ll = 0
      thres == 2 ^ (WBits - 2)
      nearestUp == r > th \/ (r = th /\ (ll > thres \/ (ll = thres /\ th % 2 = 1)))
      up == ~exact /\ rnd = RNDU
      e0 == (x_exp + BIAS) % (2 * SIGN)
      m0 == th % TwoM
      m1 == IF up THEN (m0 + 1) % TwoM ELSE m0
      wrap == up /\ m1 = 0
      f == [m |-> IF wrap THEN MSB ELSE m1,
            e |-> IF wrap THEN (e0 + 1) % (2 * SIGN) ELSE e0]
  IN [f |-> f,
      fl |-> IF exact THEN flag ELSE flag \cup nf \cup {"inexact"},
      path |-> "general", d |-> d, hh |-> hh, ll |-> ll, th |-> th, r |-> r,
      xexp |-> x_exp, exact |-> exact, nf |-> nf, err |-> "0",
      hh1 |-> 0, ll1 |-> 0, ovf |-> FALSE, xexp1 |-> 0, k |-> 0, th1 |-> 0]

\* lines 359-387: exact case, rounding decision and assembly of the result
HypotRound(hh, ll, c, x_exp, d, rnd, flag, nf) ==
  LET r == c.r
      th == c.th
      exact == r = 0 /\ ll = 0
      thres == 2 ^ (WBits - 2)
      nearestUp == r > th \/ (r = th /\ (ll > thres \/ (ll = thres /\ th % 2 = 1)))
      up == ~exact /\ AddRoundsUp(rnd, nearestUp)
      e0 == (x_exp + BIAS) % (2 * SIGN)
      m0 == th % TwoM
      m1 == IF up THEN (m0 + 1) % TwoM ELSE m0
      wrap == up /\ m1 = 0
      f == [m |-> IF wrap THEN MSB ELSE m1,
            e |-> IF wrap THEN (e0 + 1) % (2 * SIGN) ELSE e0]
  IN [f |-> f,
      fl |-> IF exact THEN flag ELSE flag \cup nf \cup {"inexact"},
      path |-> "general", d |-> d, hh |-> hh, ll |-> ll, th |-> th, r |-> r,
      xexp |-> x_exp, exact |-> exact, nf |-> nf, err |-> "0",
      hh1 |-> 0, ll1 |-> 0, ovf |-> FALSE, xexp1 |-> 0, k |-> 0, th1 |-> 0]

\* lines 257-269 with the low bits of hh dropped when the sum wraps
HypotSquares_DropLow(sx, sy, d) ==
  LET dd == d + d
      xx == sx.m * sx.m
      yy == sy.m * sy.m
      hh0 == (xx + (yy \div (2 ^ dd))) % TwoW
      ll0 == IF dd > 0 THEN (yy * 2 ^ (WBits - dd)) % TwoW ELSE 0
      ovf == hh0 < xx
  IN [hh |-> IF ovf THEN 2 ^ (WBits - 2) + (hh0 \div 4) ELSE hh0,
      ll |-> IF ovf THEN ll0 \div 4 ELSE ll0,
      ovf |-> ovf]

\* lines 257-269: hh and ll from the significands, 0 <= d < 32
HypotSquares(sx, sy, d) ==
  LET dd == d + d
      xx == sx.m * sx.m
      yy == sy.m * sy.m
      hh0 == (xx + (yy \div (2 ^ dd))) % TwoW
      ll0 == IF dd > 0 THEN (yy * 2 ^ (WBits - dd)) % TwoW ELSE 0
      ovf == hh0 < xx
  IN [hh |-> IF ovf THEN 2 ^ (WBits - 2) + (hh0 \div 4) ELSE hh0,
      ll |-> IF ovf THEN ((hh0 * 2 ^ (WBits - 2)) % TwoW) + (ll0 \div 4) ELSE ll0,
      ovf |-> ovf]

\* lines 271-387: from the overflow test to the return.  dth is the error of
\* the binary64 Newton estimate of sqrt(hh) (lines 287-327), nf the flags its
\* operations raise
HypotTail(hh1, ll1, x_exp1, d, rnd, flag, dth, nf) ==
  LET th0 == isqrt(hh1) + dth
      sub == x_exp1 < -(BIAS - 1)
      k == -(BIAS - 1) - x_exp1
      th1 == IF sub THEN th0 \div (2 ^ k) ELSE th0
      ll2 == IF sub
             THEN ((hh1 * 2 ^ (WBits - 2 * k)) % TwoW) + (ll1 \div (2 ^ (2 * k)))
             ELSE ll1
      hh2 == IF sub THEN hh1 \div (2 ^ (2 * k)) ELSE hh1
      x_exp2 == IF sub THEN x_exp1 + k - 1 ELSE x_exp1
  IN IF x_exp1 >= BIAS /\ HypotOverflows(x_exp1, hh1, ll1)
     THEN [HypotOverflow(x_exp1, rnd, flag) EXCEPT
             !.d = d, !.hh = hh1, !.ll = ll1, !.xexp = x_exp1,
             !.hh1 = hh1, !.ll1 = ll1, !.xexp1 = x_exp1]
     ELSE [HypotRound(hh2, ll2, HypotCorrect(hh2, th1), x_exp2, d, rnd, flag, nf)
           EXCEPT !.hh1 = hh1, !.ll1 = ll1, !.xexp1 = x_exp1,
                  !.k = IF sub THEN k ELSE 0, !.th1 = th1]

\* lines 257-387: 0 <= d < 32
HypotNear(sx, sy, x_exp0, d, rnd, flag, dth, nf) ==
  LET sq == HypotSquares(sx, sy, d)
      x_exp1 == IF sq.ovf THEN x_exp0 + 1 ELSE x_exp0
  IN [HypotTail(sq.hh, sq.ll, x_exp1, d, rnd, flag, dth, nf)
      EXCEPT !.ovf = sq.ovf]

\* HypotFinite adjusting the exponents of subnormal operands by k, not k - 1
HypotFinite_ExpOffByOne(sx, sy, x_exp, y_exp, rnd, flag, dth, nf) ==
  LET ysub == y_exp = -BIAS
      ky == IF ysub THEN clz(sy.m) ELSE 0
      sy1 == IF ysub THEN [sy EXCEPT !.m = sy.m * 2 ^ ky] ELSE sy
      y_exp1 == IF ysub THEN y_exp - ky ELSE y_exp
      xsub == ysub /\ x_exp = -BIAS
      kx == IF xsub THEN clz(sx.m) ELSE 0
      sx1 == IF xsub THEN [sx EXCEPT !.m = sx.m * 2 ^ kx] ELSE sx
      x_exp1 == IF xsub THEN x_exp - kx ELSE x_exp
      d == x_exp1 - y_exp1
  IN IF d >= HalfBits
     THEN HypotFar(sx1, sy1, d, rnd, flag)
     ELSE HypotNear(sx1, sy1, x_exp1, d, rnd, flag, dth, nf)

\* lines 206-255: normalise subnormal operands, then split on d
HypotFinite(sx, sy, x_exp, y_exp, rnd, flag, dth, nf) ==
  LET ysub == y_exp = -BIAS
      ky == IF ysub THEN clz(sy.m) ELSE 0
      sy1 == IF ysub THEN [sy EXCEPT !.m = sy.m * 2 ^ ky] ELSE sy
      y_exp1 == IF ysub THEN y_exp - (ky - 1) ELSE y_exp
      xsub == ysub /\ x_exp = -BIAS
      kx == IF xsub THEN clz(sx.m) ELSE 0
      sx1 == IF xsub THEN [sx EXCEPT !.m = sx.m * 2 ^ kx] ELSE sx
      x_exp1 == IF xsub THEN x_exp - (kx - 1) ELSE x_exp
      d == x_exp1 - y_exp1
  IN IF d >= HalfBits
     THEN HypotFar(sx1, sy1, d, rnd, flag)
     ELSE HypotNear(sx1, sy1, x_exp1, d, rnd, flag, dth, nf)

\* cr_hypotl returning a finite result with the sign bit of the larger argument
cr_hypotl_KeepSign(x, y, rnd, flag, dth, nf) ==
  LET x_exp0 == ExpField(x) - BIAS
      y_exp0 == ExpField(y) - BIAS
      swap == x_exp0 < y_exp0 \/ (x_exp0 = y_exp0 /\ x.m < y.m)
      sx == IF swap THEN y ELSE x
      sy == IF swap THEN x ELSE y
      x_exp == IF swap THEN y_exp0 ELSE x_exp0
      y_exp == IF swap THEN x_exp0 ELSE y_exp0
      r == HypotFinite(sx, sy, x_exp, y_exp, rnd, flag, dth, nf)
  IN IF x_exp = BIAS + 1
     THEN HypotNaNInf(sx, sy, x_exp, y_exp, flag)
     ELSE IF y_exp = -BIAS /\ sy.m = 0
     THEN HypotZero(sx, x_exp, flag)
     ELSE [r EXCEPT !.f = [m |-> r.f.m,
                           e |-> ExpField(r.f) + SignBit(sx) * SIGN]]

\* long double cr_hypotl (long double x, long double y)
cr_hypotl(x, y, rnd, flag, dth, nf) ==
  LET x_exp0 == ExpField(x) - BIAS
      y_exp0 == ExpField(y) - BIAS
      swap == x_exp0 < y_exp0 \/ (x_exp0 = y_exp0 /\ x.m < y.m)
      sx == IF swap THEN y ELSE x
      sy == IF swap THEN x ELSE y
      x_exp == IF swap THEN y_exp0 ELSE x_exp0
      y_exp == IF swap THEN x_exp0 ELSE y_exp0
  IN IF x_exp = BIAS + 1
     THEN HypotNaNInf(sx, sy, x_exp, y_exp, flag)
     ELSE IF y_exp = -BIAS /\ sy.m = 0
     THEN HypotZero(sx, x_exp, flag)
     ELSE HypotFinite(sx, sy, x_exp, y_exp, rnd, flag, dth, nf)

(***************************************************************************)
(* cbrtl.c and exp2l.c.  The double-double polynomial evaluation of the    *)
(* fast and accurate paths is not computed: its outcome num is an input    *)
(* of the call, [ok |-> rounding test left == right passes,                *)
(* fast |-> value of left, acc |-> value of the accurate path, fl |-> the  *)
(* flags the evaluation raises].                                           *)
(***************************************************************************)
One == [m |-> MSB, e |-> BIAS]
NextAboveOne == [m |-> MSB + 1, e |-> BIAS]
NextBelowOne == [m |-> TwoM - 1, e |-> BIAS - 1]
MinSubnormal == [m |-> 1, e |-> 0]

\* long double cr_cbrtl (long double x)
cr_cbrtl(x, rnd, flag, num) ==
  LET e == ExpField(x)
  IN IF e = EMASK \/ IsZero(x)
     THEN Ret(x, flag, "special")
     ELSE IF num.ok
     THEN Ret(num.fast, flag \cup num.fl, "fast")
     ELSE Ret(PlusZero, flag \cup num.fl, "placeholder")

\* biased exponent of 2^14 = 16384 (source: 16397)
EXP2_OVF_E == BIAS + ExpBits - 1
\* significand of 0x1.00f8p+14L = 16446 = 16383 + 63
EXP2_UNF_M == (BIAS + MBits - 1) * 2 ^ (MBits - ExpBits)
\* biased exponent bound of the tiny inputs, |x| < 2^-63 (source: 16319)
EXP2_TINY_E == BIAS - MBits
\* leading bits of the significand of 0x1.71547652b82fe176p-64L
LOG2E_M == 47274 \div 2 ^ (16 - MBits)

\* __builtin_fmal (x, x, 0x1p0L) and __builtin_fmal (x, -x, 0x1p0L), |x| < 2^-63
FmaTiny(x, neg, rnd, flag) ==
  IF IsZero(x) THEN Ret(One, flag, "tiny")
  ELSE IF ~neg /\ rnd = RNDU THEN Ret(NextAboveOne, flag \cup {"inexact"}, "tiny")
  ELSE IF neg /\ rnd \in {RNDZ, RNDD} THEN Ret(NextBelowOne, flag \cup {"inexact"}, "tiny")
  ELSE Ret(One, flag \cup {"inexact"}, "tiny")

\* lines 790-803: fast path, rounding test, accurate path
Exp2Numeric(flag, num) ==
  IF num.ok
  THEN Ret(num.fast, flag \cup num.fl, "fast")
  ELSE Ret(num.acc, flag \cup num.fl, "accurate")

\* lines 777-803
Exp2Regular(x, rnd, flag, num) ==
  LET e == ExpField(x)
      s == SignBit(x)
  IN IF e <= EXP2_TINY_E /\ (s = 0 \/ IsZero(x))
        /\ (e < EXP2_TINY_E \/ x.m <= LOG2E_M)
     THEN FmaTiny(x, FALSE, rnd, flag)
     ELSE IF e <= EXP2_TINY_E /\ s = 1 /\ ~IsZero(x)
             /\ (e < EXP2_TINY_E - 1 \/ (e = EXP2_TINY_E - 1 /\ x.m <= LOG2E_M))
     THEN FmaTiny(x, TRUE, rnd, flag)
     ELSE Exp2Numeric(flag, num)

\* cr_exp2l computing 2^-Inf as 0x1p-16445L * 0.5L like the underflow case
cr_exp2l_MinusInfUnderflows(x, rnd, flag, num) ==
  LET e == ExpField(x)
  IN IF e >= EXP2_OVF_E
     THEN IF e = EMASK /\ ~(x.e = 2 * SIGN - 1 /\ x.m = MSB)
          THEN Ret(x, flag, "special")
          ELSE IF SignBit(x) = 0
          THEN Ret(IF rnd \in {RNDN, RNDU} THEN PlusInf ELSE HUGE,
                   flag \cup {"overflow", "inexact"}, "overflow")
          ELSE IF e > EXP2_OVF_E \/ x.m >= EXP2_UNF_M
          THEN Ret(IF rnd = RNDU THEN MinSubnormal ELSE PlusZero,
                   flag \cup {"underflow", "inexact"},
                   IF e = EMASK THEN "special" ELSE "underflow")
          ELSE Exp2Regular(x, rnd, flag, num)
     ELSE Exp2Regular(x, rnd, flag, num)

\* long double cr_exp2l (long double x)
cr_exp2l(x, rnd, flag, num) ==
  LET e == ExpField(x)
  IN IF e >= EXP2_OVF_E
     THEN IF e = EMASK
          THEN IF x.e = 2 * SIGN - 1 /\ x.m = MSB
               THEN Ret(PlusZero, flag, "special")
               ELSE Ret(x, flag, "special")
          ELSE IF SignBit(x) = 0
          THEN Ret(IF rnd \in {RNDN, RNDU} THEN PlusInf ELSE HUGE,
                   flag \cup {"overflow", "inexact"}, "overflow")
          ELSE IF e > EXP2_OVF_E \/ x.m >= EXP2_UNF_M
          THEN Ret(IF rnd = RNDU THEN MinSubnormal ELSE PlusZero,
                   flag \cup {"underflow", "inexact"}, "underflow")
          ELSE Exp2Regular(x, rnd, flag, num)
     ELSE Exp2Regular(x, rnd, flag, num)

(***************************************************************************)
(* binary32 of check_exhaustive.c.  A float is held as its bit pattern     *)
(* (asfloat/asuint reinterpret the same 32 bits); the widths are scaled:   *)
(* FExpBits exponent bits (source 8), FManBits mantissa bits (source 23).  *)
(***************************************************************************)
\* width of the binary32 exponent field (source: 8)
FExpBits == 2
\* width of the binary32 mantissa field (source: 23)
FManBits == 2

FBits == 1 + FExpBits + FManBits
TwoF == 2 ^ FBits
uint32_t == 0 .. TwoF - 1
\* 0x80000000
FSIGN == 2 ^ (FBits - 1)
\* 0xff and 0x1ff, the values of u >> 23 with all exponent bits set
FEMAX == 2 ^ FExpBits - 1
FEMAXNEG == 2 ^ (FExpBits + 1) - 1
\* 0x7f800000, 0x7f800001, 0x7fc00000
INF32 == FEMAX * 2 ^ FManBits
SNAN32 == INF32 + 1
QNAN32 == INF32 + 2 ^ (FManBits - 1)
\* asuint (0x1p-126f)
MINNORM32 == 2 ^ FManBits

is_nan_f(u) ==
  LET e == u \div 2 ^ FManBits
  IN (e = FEMAX \/ e = FEMAXNEG) /\ (u * 2 ^ (FExpBits + 1)) % TwoF # 0

is_inf_f(u) ==
  LET e == u \div 2 ^ FManBits
  IN (e = FEMAX \/ e = FEMAXNEG) /\ (u * 2 ^ (FExpBits + 1)) % TwoF = 0

is_equal_f(y1, y2) ==
  IF is_nan_f(y1) THEN is_nan_f(y2)
  ELSE IF is_nan_f(y2) THEN is_nan_f(y1)
  ELSE y1 = y2

\* !(_x.n & (1ull << 22))
issignaling(u) == (u \div 2 ^ (FManBits - 1)) % 2 = 0

fabsf(u) == u % FSIGN

(***************************************************************************)
(* is_nan / is_equal of the two binary80 check_special.c harnesses.        *)
(***************************************************************************)
is_nan_ld(v) == (v.e = EMASK \/ v.e = SIGN + EMASK) /\ v.m # MSB

is_equal_hypot(x, y) ==
  IF is_nan_ld(x) THEN is_nan_ld(y)
  ELSE IF is_nan_ld(y) THEN is_nan_ld(x)
  ELSE x.e = y.e /\ x.m = y.m

\* x == y on two long doubles that are not NaN: the values are compared, so
\* zeros of either sign are equal, and a field e = 0 has the exponent of e = 1
EffExp(v) == IF ExpField(v) = 0 THEN 1 ELSE ExpField(v)
NumEqual(x, y) ==
  \/ x.m = 0 /\ y.m = 0 /\ ExpField(x) # EMASK /\ ExpField(y) # EMASK
  \/ SignBit(x) = SignBit(y) /\ EffExp(x) = EffExp(y) /\ x.m = y.m

is_equal_log2(x, y) ==
  IF is_nan_ld(x) THEN is_nan_ld(y)
  ELSE IF is_nan_ld(y) THEN is_nan_ld(x)
  ELSE NumEqual(x, y)


(***************************************************************************)
(* Calls of the kernels.  A call takes the arguments, the rounding mode    *)
(* and the flag register the caller left, and returns value and flags.     *)
(***************************************************************************)
\* exponent fields of the arguments given to cr_hypotl: the lowest binades
\* (subnormals included), the two highest ones, and Inf/NaN
ExpWindow == (0 .. HalfBits + 1) \cup {EMASK - 2, EMASK - 1, EMASK}
HypotArgs == {v \in LongDoubles : ExpField(v) \in ExpWindow}
SpecialArgs == {v \in LongDoubles : IsSpecial(v)}
FiniteArgs == {v \in HypotArgs : IsFinite(v)}
PositiveArgs == {v \in FiniteArgs : SignBit(v) = 0}

\* flag registers on entry: clean, or the three checked flags already raised
EntryFlags == {{}, Checked3}

\* outcomes of the polynomial paths
NumOutcomes ==
  [ok : BOOLEAN, fast : {NextAboveOne}, acc : {NextBelowOne}, fl : {{"inexact"}}]
NoNum == [ok |-> TRUE, fast |-> One, acc |-> One, fl |-> {}]

\* error of the Newton estimate th of sqrt(hh), and flags it raises
NewtonErr == {-1, 0, 1}
NewtonFlags == {{}, {"inexact"}}

KIdle == Ret(PlusZero, {}, "none")
NoOut == [num |-> NoNum, dth |-> 0, nf |-> {}]

\* no kernel call, no harness process, no is_equal call in the state
KernelOff ==
  /\ kpc = "off" /\ fn = "none" /\ ax = PlusZero /\ ay = PlusZero
  /\ mode = RNDN /\ fl0 = {} /\ kr = KIdle /\ kerrno = "0"
  /\ kr1 = KIdle /\ kout = NoOut

HarnessOff ==
  /\ prog = "none" /\ hpc = "off" /\ hi = 1 /\ nloop = 0 /\ keep = 0
  /\ rndopt = RNDN /\ ub = FALSE /\ status = "running" /\ allok = FALSE
  /\ mpf = {} /\ fef = {} /\ err = "0" /\ refrnd = RNDN /\ fernd = RNDN
  /\ dph = "idle" /\ dx = 0 /\ dy = 0 /\ dz = 0
  /\ inex_y = FALSE /\ inex_z = FALSE /\ report = <<>>
  /\ failed = FALSE /\ cnt = [u \in uint32_t |-> 0]
  /\ gy = {} /\ gz = {} /\ gerr = "0"

EqualOff == eqh = "none" /\ eqa = 0 /\ eqb = 0 /\ eqr = "pending"

\* worker threads of a parallel loop
NThreads == 2
Threads == 0 .. NThreads - 1

NoSample == [v |-> PlusZero, tid |-> -1]

SamplingOff ==
  /\ sprog = "none" /\ nleft = 0 /\ tpc = [t \in Threads |-> "idle"]
  /\ Seed = [t \in Threads |-> 0] /\ randst = 0
  /\ gx = NoSample /\ acc = {}

ExtendedOff ==
  /\ cepc = "off" /\ cex = PlusZero /\ cer = 0 /\ cee = 0 /\ emin = 0
  /\ emax = 0 /\ efrexp = 0 /\ cernd = RNDN /\ checked = {}

\* an 80-bit encoding at the width of the source: v.m, most significant limb
\* first, and v.e (sign and biased exponent)
Zero64 == <<0, 0, 0, 0>>
NoIndex == [i |-> 0, e |-> 0, i0 |-> 0, i1 |-> 0, i2 |-> 0, wraps |-> FALSE]
NoReduce ==
  [route |-> "none", s |-> 0, kf |-> 0, fi |-> NoIndex,
   acc |-> FALSE, ka |-> 0, ai |-> NoIndex]

ReduceOff == rpc = "off" /\ rx = [m |-> Zero64, e |-> 0] /\ rr = NoReduce

ExtrasOff == SamplingOff /\ ExtendedOff /\ ReduceOff

\* the caller is about to call kernel fn on (ax, ay) under rounding mode
\* mode with flag register fl0
Pending(F) ==
  /\ kpc = "idle"
  /\ mode \in Modes
  /\ fl0 \in F
  /\ kr = KIdle
  /\ kerrno = "0"
  /\ kr1 = KIdle
  /\ kout = NoOut
  /\ HarnessOff
  /\ EqualOff
  /\ ExtrasOff

\* the kernel returns ret, having computed the intermediate values out
Returned(ret, out) ==
  /\ kpc' = IF kpc \in {"idle", "tail"} THEN "ret" ELSE "ret2"
  /\ kr' = ret
  /\ kerrno' = KernelErrno(kerrno, ret.err)
  /\ kout' = out
  /\ UNCHANGED <<fn, ax, ay, mode, fl0, kr1, hvars, qvars, yvars>>

\* a stage that also reads state which changes from call to call
Computed_Fresh(S) == S

\* the values a polynomial or Newton stage can compute: the stage reads its
\* arguments and constant tables only, so a repeated call computes the same
Computed(S) == IF kpc = "again" THEN {kout} ELSE S

CallCbrtl ==
  /\ kpc \in {"idle", "again"}
  /\ fn = "cbrtl"
  /\ \E out \in Computed([num : IF IsSpecial(ax) THEN {NoNum} ELSE NumOutcomes,
                          dth : {0}, nf : {{}}]) :
       Returned(cr_cbrtl(ax, mode, fl0, out.num), out)

CallExp2l ==
  /\ kpc \in {"idle", "again"}
  /\ fn = "exp2l"
  /\ \E out \in Computed([num : IF ExpField(ax) = EMASK THEN {NoNum}
                                ELSE NumOutcomes,
                          dth : {0}, nf : {{}}]) :
       Returned(cr_exp2l(ax, mode, fl0, out.num), out)

CallHypotl ==
  /\ kpc \in {"idle", "again", "next"}
  /\ fn = "hypotl"
  /\ \E out \in Computed([num : {NoNum},
                          dth : IF IsSpecial(ax) \/ IsSpecial(ay) THEN {0}
                                ELSE NewtonErr,
                          nf : IF IsSpecial(ax) \/ IsSpecial(ay) THEN {{}}
                               ELSE NewtonFlags]) :
       Returned(cr_hypotl(ax, ay, mode, fl0, out.dth, out.nf), out)

NextK ==
  \/ CallCbrtl
  \/ CallExp2l
  \/ CallHypotl

\* calls with a NaN, an infinity or a zero among the arguments
SpecialPairs ==
  {xy \in HypotArgs \X HypotArgs : IsSpecial(xy[1]) \/ IsSpecial(xy[2])}

InitSpecial ==
  /\ Pending(EntryFlags)
  /\ \/ fn = "cbrtl" /\ ax \in SpecialArgs /\ ay = ax
     \/ fn = "exp2l" /\ ax \in SpecialArgs /\ ay = ax
     \/ fn = "hypotl" /\ \E xy \in SpecialPairs : ax = xy[1] /\ ay = xy[2]

SpecSpecial == InitSpecial /\ [][NextK]_vars

\* calls of cr_cbrtl and cr_exp2l on finite arguments with a clean flag
\* register and errno = 0
NextUnary ==
  \/ CallCbrtl
  \/ CallExp2l

InitUnary ==
  /\ Pending({{}})
  /\ fn \in {"cbrtl", "exp2l"}
  /\ ax \in {v \in LongDoubles : IsFinite(v)}
  /\ ay = ax

SpecUnary == InitUnary /\ [][NextUnary]_vars

\* the caller keeps the result, clears the flag register and errno, and calls
\* the kernel again with the same argument under the same rounding mode
CallAgain ==
  /\ kpc = "ret"
  /\ kpc' = "again"
  /\ kr1' = kr
  /\ kr' = KIdle
  /\ kerrno' = "0"
  /\ UNCHANGED <<fn, ax, ay, mode, fl0, kout, hvars, qvars, yvars>>

NextTwice ==
  \/ CallCbrtl
  \/ CallExp2l
  \/ CallHypotl
  \/ CallAgain

\* two calls in a row of one kernel, each entered with a clean flag register
InitTwice ==
  /\ Pending({{}})
  /\ \/ fn \in {"cbrtl", "exp2l"} /\ ax \in LongDoubles /\ ay = ax
     \/ fn = "hypotl" /\ ax \in HypotArgs /\ ay \in PositiveArgs

SpecTwice == InitTwice /\ [][NextTwice]_vars

\* x with the sign bit flipped
Negate(x) == [m |-> x.m, e |-> (x.e + SIGN) % (2 * SIGN)]

\* the argument pairs check (x, y) passes to check_aux
Variants(x, y) ==
  {<<x, y>>, <<x, Negate(y)>>, <<Negate(x), y>>, <<Negate(x), Negate(y)>>,
   <<y, x>>, <<y, Negate(x)>>, <<Negate(y), x>>, <<Negate(y), Negate(x)>>}

\* check calls check_aux, and so cr_hypotl, on another of the eight pairs;
\* kr1 keeps the value and flags of the first call
CallVariant ==
  /\ kpc \in {"ret", "ret2"}
  /\ fn = "hypotl"
  /\ kpc' = "next"
  /\ kr1' = IF kr1.path = "none"
            THEN [KIdle EXCEPT !.f = kr.f, !.fl = kr.fl, !.path = "first"]
            ELSE kr1
  /\ kr' = KIdle
  /\ kerrno' = "0"
  /\ kout' = NoOut
  /\ \E v \in Variants(ax, ay) : ax' = v[1] /\ ay' = v[2]
  /\ UNCHANGED <<fn, mode, fl0, hvars, qvars, yvars>>

NextVariants ==
  \/ CallHypotl
  \/ CallVariant

\* check (x, y) of the hypot harness, starting with a pair of positive
\* arguments
InitVariants ==
  /\ Pending({{}})
  /\ fn = "hypotl"
  /\ ax \in {v \in HypotArgs : SignBit(v) = 0}
  /\ ay \in {v \in HypotArgs : SignBit(v) = 0}

SpecVariants == InitVariants /\ [][NextVariants]_vars

\* calls of cr_hypotl on finite arguments with a clean flag register
InitHypot ==
  /\ Pending({{}})
  /\ fn = "hypotl"
  /\ ax \in FiniteArgs
  /\ ay \in PositiveArgs

SpecHypot == InitHypot /\ [][CallHypotl]_vars

\* cr_hypotl from line 271 on: hh, ll and x_exp are computed (kept in kr)
HypotFromOverflowTest ==
  /\ kpc = "tail"
  /\ fn = "hypotl"
  /\ \E out \in [num : {NoNum}, dth : NewtonErr, nf : NewtonFlags] :
       Returned(HypotTail(kr.hh1, kr.ll1, kr.xexp1, kr.d, mode, fl0,
                          out.dth, out.nf), out)

\* values of hh in the top binade around HT, and of ll around 0, 1/4 and 1/2
TailHigh == (HT - TwoM) .. (TwoW - 1)
TailLow ==
  {0, 1, 2 ^ (WBits - 2) - 1, 2 ^ (WBits - 2), 2 ^ (WBits - 2) + 1,
   2 ^ (WBits - 1), TwoW - 1}

InitTail ==
  /\ kpc = "tail"
  /\ fn = "hypotl"
  /\ ax = PlusZero /\ ay = PlusZero
  /\ mode \in Modes
  /\ fl0 = {}
  /\ \E h \in TailHigh, l \in TailLow, e \in {BIAS - 1, BIAS, BIAS + 1} :
       kr = [KIdle EXCEPT !.hh1 = h, !.ll1 = l, !.xexp1 = e]
  /\ kerrno = "0"
  /\ kr1 = KIdle
  /\ kout = NoOut
  /\ HarnessOff
  /\ EqualOff
  /\ ExtrasOff

SpecTail == InitTail /\ [][HypotFromOverflowTest]_vars

(***************************************************************************)
(* Calls of is_equal of the three harnesses on a pair of results.          *)
(***************************************************************************)
IsEqualReturns(r) ==
  /\ eqr = "pending"
  /\ eqr' = (IF r THEN "equal" ELSE "different")
  /\ UNCHANGED <<eqh, eqa, eqb, kvars, hvars, xvars>>

IsEqualExhaustive == eqh = "exhaustive" /\ IsEqualReturns(is_equal_f(eqa, eqb))
IsEqualHypot == eqh = "hypot" /\ IsEqualReturns(is_equal_hypot(eqa, eqb))
IsEqualLog2 == eqh = "log2" /\ IsEqualReturns(is_equal_log2(eqa, eqb))

NextEqual ==
  \/ IsEqualExhaustive
  \/ IsEqualHypot
  \/ IsEqualLog2

InitEqual ==
  /\ KernelOff
  /\ HarnessOff
  /\ ExtrasOff
  /\ eqr = "pending"
  /\ \/ eqh = "exhaustive" /\ eqa \in uint32_t /\ eqb \in uint32_t
     \/ eqh \in {"hypot", "log2"} /\ eqa \in HypotArgs /\ eqb \in HypotArgs

SpecEqual == InitEqual /\ [][NextEqual]_vars

(***************************************************************************)
(* The harness processes.  The oracle (ref_function_under_test, MPFR) and  *)
(* the kernel under test are the environment: each call returns one of a   *)
(* few results, raises one of a few flag sets and may set errno.           *)
(***************************************************************************)
\* number of checks of the random loop of a check_special harness
\* (source: CORE_MATH_TESTS, N)
MaxTests == 2

\* flags a call raises
RaisedSets ==
  {{}, {"inexact"}, {"underflow"}, {"inexact", "underflow"},
   {"inexact", "overflow"}}
\* errno a call leaves: "0" when the call does not assign errno
ErrnoValues == {"0", "EDOM", "ERANGE"}
\* results and flags of the binary32 oracle; the kernel returns the oracle's result or
\* a different one (-0 for +0, +0 otherwise); on a signaling NaN or another
\* special input it returns one of KernelValues
OracleOutcomes ==
  {[y |-> 0, fl |-> {}], [y |-> 0, fl |-> {"underflow"}],
   [y |-> 0, fl |-> {"inexact", "underflow"}],
   [y |-> MINNORM32, fl |-> {}], [y |-> MINNORM32, fl |-> {"inexact"}],
   [y |-> MINNORM32, fl |-> {"inexact", "underflow"}],
   [y |-> INF32, fl |-> {}], [y |-> INF32, fl |-> {"inexact", "overflow"}],
   [y |-> QNAN32, fl |-> {}]}
KernelResults(y) == {y, IF y = 0 THEN FSIGN ELSE 0}
KernelValues == {0, INF32, SNAN32, QNAN32}
\* results of the binary80 oracle and kernel
LdValues ==
  {PlusZero, [m |-> 0, e |-> SIGN], One, PlusInf, [m |-> MSB + QBIT, e |-> EMASK]}

\* fix_underflow's recomputation mpfr_function_under_test (t, t, rnd2[rnd]):
\* whether |t| = 2^-126, and the MPFR flags it raises
FixOutcomes == [tmin : BOOLEAN, fl : {{}, {"inexact"}}]
NoFix == [tmin |-> FALSE, fl |-> {}]

\* mpfr_flags_clear that leaves the flags as they are
mpfr_flags_clear_Nop(flags, mask) == flags

mpfr_flags_clear(flags, mask) == flags \ mask

\* feclearexcept that leaves the flags as they are
feclearexcept_Nop(flags, mask) == flags

feclearexcept(flags, mask) == flags \ mask

\* fesetround that leaves the rounding mode as it is
fesetround_Nop(current, m) == current

\* fesetround (rnd1[rnd]) and ref_fesetround (rnd): the mode after the call
fesetround(current, m) == m
ref_fesetround(current, m) == m

\* the exit after a message of doit taken whatever keep is
DoitExits_Always(msgs, k) == msgs # <<>>

\* "if (!keep) exit (1);" after a message of doit
DoitExits(msgs, k) == msgs # <<>> /\ k = 0

\* lines 127-154; returns the MPFR flags and the fenv flags it leaves
fix_underflow(y, m, f, underflow_before, fix) ==
  IF fabsf(y) # MINNORM32 THEN [mpf |-> m, fef |-> f]
  ELSE IF underflow_before
  THEN [mpf |-> m,
        fef |-> IF "underflow" \notin m
                THEN feclearexcept(f, {"underflow"}) ELSE f]
  ELSE [mpf |-> IF fix.tmin
                THEN mpfr_flags_clear(m \cup fix.fl, {"underflow"})
                ELSE m \cup fix.fl,
        fef |-> f]

Msg(c, text) == IF c THEN <<text>> ELSE <<>>

\* lines 179-272 of doit: the messages printed when no exit intervenes, in
\* order, and the flags left
DoitChecks(x, y, z, m, f, e, iy, iz, underflow_before, fix) ==
  LET m1 == IF "underflow" \in m /\ "inexact" \notin m
            THEN mpfr_flags_clear(m, {"underflow"}) ELSE m
      fu == fix_underflow(y, m1, f, underflow_before, fix)
      m2 == fu.mpf
      f2 == fu.fef
      expected_erange ==
        \/ is_inf_f(y) /\ ~iy
        \/ "overflow" \in m2
        \/ "underflow" \in m2
      finite == ~is_nan_f(x) /\ ~is_inf_f(x)
  IN [msgs |->
        Msg(~is_equal_f(y, z), "FAIL")
        \o Msg("underflow" \in f2 /\ "underflow" \notin m2, "Spurious underflow")
        \o Msg("underflow" \notin f2 /\ "underflow" \in m2, "Missing underflow")
        \o Msg("overflow" \in f2 /\ "overflow" \notin m2, "Spurious overflow")
        \o Msg("overflow" \notin f2 /\ "overflow" \in m2, "Missing overflow")
        \o Msg(~iy /\ iz, "Spurious inexact")
        \o Msg(iy /\ ~iz, "Missing inexact")
        \o Msg(finite /\ is_nan_f(y) /\ e # "EDOM", "Missing errno=EDOM")
        \o Msg(finite /\ ~is_nan_f(y) /\ e = "EDOM", "Spurious errno=EDOM")
        \o Msg(finite /\ expected_erange /\ e # "ERANGE", "Missing errno=ERANGE")
        \o Msg(finite /\ ~expected_erange /\ e = "ERANGE", "Spurious errno=ERANGE"),
      mpf |-> m2, fef |-> f2]

\* the arguments of the six doit calls and of the eight check_exceptions_aux
\* calls that precede the loop of doloop
SpecialInputs ==
  <<SNAN32, SNAN32 + FSIGN, QNAN32, QNAN32 + FSIGN, INF32, INF32 + FSIGN>>
ExceptionInputs ==
  <<SNAN32, SNAN32 + FSIGN, QNAN32, QNAN32 + FSIGN, INF32, INF32 + FSIGN,
    0, FSIGN>>

\* uint32_t nmin = asuint (0x0p0f), nmax = asuint (0x1.fffffep+127f)
nmin == 0
nmax == INF32 - 1

\* exit (1)
Exit1(msgs) ==
  /\ status' = "1"
  /\ hpc' = "exit"
  /\ dph' = "idle"
  /\ report' = msgs
  /\ failed' = TRUE
  /\ UNCHANGED <<prog, hi, nloop, keep, rndopt, ub, allok>>

\* DoitArg without the sign flip of the second call of the loop body
DoitArg_NoFlip == IF hpc = "special" THEN SpecialInputs[hi] ELSE nloop

\* the argument of the doit call doloop is about to make
DoitArg ==
  IF hpc = "special" THEN SpecialInputs[hi]
  ELSE IF hpc = "loop_pos" THEN nloop
  ELSE (nloop + FSIGN) % TwoF

\* doit, lines 160-167: the oracle call
DoitOracle ==
  /\ prog = "exhaustive"
  /\ dph = "idle"
  /\ \/ hpc = "special"
     \/ hpc = "loop_pos" /\ nloop <= nmax
     \/ hpc = "loop_neg"
  /\ \E o \in OracleOutcomes :
       /\ dx' = DoitArg
       /\ refrnd' = ref_fesetround(refrnd, rndopt)
       /\ mpf' = mpfr_flags_clear(mpf, Checked3) \cup o.fl
       /\ dy' = o.y
       /\ inex_y' = ("inexact" \in mpf')
       /\ gy' = o.fl
  /\ cnt' = [cnt EXCEPT ![DoitArg] = @ + 1]
  /\ dph' = "kernel"
  /\ report' = <<>>
  /\ UNCHANGED <<pvars, fef, err, fernd, dz, inex_z, failed, gz, gerr>>
  /\ UNCHANGED <<kvars, qvars, xvars>>

\* doit, lines 168-176: the kernel call
DoitKernel ==
  /\ prog = "exhaustive"
  /\ dph = "kernel"
  /\ \E z \in KernelResults(dy), raised \in RaisedSets, e \in ErrnoValues :
       /\ fernd' = fesetround(fernd, rndopt)
       /\ fef' = feclearexcept(fef, Checked3) \cup raised
       /\ err' = KernelErrno("0", e)
       /\ dz' = z
       /\ inex_z' = ("inexact" \in fef')
       /\ gz' = raised
       /\ gerr' = e
  /\ dph' = "compare"
  /\ UNCHANGED <<pvars, mpf, refrnd, dx, dy, inex_y, report, failed, cnt, gy>>
  /\ UNCHANGED <<kvars, qvars, xvars>>

\* the locals of a check that has ended
NoResult == IF prog = "exhaustive" THEN 0 ELSE PlusZero

LocalsGone ==
  /\ dx' = 0 /\ dy' = NoResult /\ dz' = NoResult
  /\ inex_y' = FALSE /\ inex_z' = FALSE
  /\ gy' = {} /\ gz' = {} /\ gerr' = "0"

\* doit returns to doloop, which moves to its next statement
DoitReturn ==
  /\ dph' = "idle"
  /\ IF hpc = "special"
     THEN IF hi < Len(SpecialInputs)
          THEN hi' = hi + 1 /\ UNCHANGED <<hpc, nloop>>
          ELSE hpc' = "snan" /\ hi' = 1 /\ UNCHANGED nloop
     ELSE IF hpc = "loop_pos"
     THEN hpc' = "loop_neg" /\ UNCHANGED <<hi, nloop>>
     ELSE hpc' = "loop_pos" /\ nloop' = (nloop + 1) % TwoF /\ UNCHANGED hi
  /\ UNCHANGED <<prog, keep, rndopt, ub, status, allok>>

\* doit, lines 177-272: the comparisons
DoitCompare ==
  /\ prog = "exhaustive"
  /\ dph = "compare"
  /\ \E fix \in (IF fabsf(dy) = MINNORM32 /\ ~ub THEN FixOutcomes ELSE {NoFix}) :
       LET c == DoitChecks(dx, dy, dz, mpf, fef, err, inex_y, inex_z, ub, fix)
       IN IF DoitExits(c.msgs, keep)
          THEN Exit1(<<Head(c.msgs)>>) /\ UNCHANGED <<mpf, fef>>
          ELSE /\ report' = c.msgs
               /\ failed' = (failed \/ c.msgs # <<>>)
               /\ mpf' = c.mpf
               /\ fef' = c.fef
               /\ DoitReturn
  /\ LocalsGone
  /\ UNCHANGED <<err, refrnd, fernd, cnt>>
  /\ UNCHANGED <<kvars, qvars, xvars>>

\* check_signaling_nan, lines 282-318: two kernel calls, exit (1) on a result
\* that is not a quiet NaN
CheckSignalingNan ==
  /\ prog = "exhaustive"
  /\ dph = "idle"
  /\ hpc = "snan"
  /\ \E y1 \in KernelValues, y2 \in KernelValues, raised \in RaisedSets :
       /\ fef' = fef \cup raised
       /\ IF ~is_nan_f(y1) THEN Exit1(<<"Error, foo(sNaN) should be NaN">>)
          ELSE IF issignaling(y1) THEN Exit1(<<"Error, foo(sNaN) should be qNaN">>)
          ELSE IF ~is_nan_f(y2) THEN Exit1(<<"Error, foo(sNaN) should be NaN">>)
          ELSE IF issignaling(y2) THEN Exit1(<<"Error, foo(sNaN) should be qNaN">>)
          ELSE /\ hpc' = "exc"
               /\ hi' = 1
               /\ report' = <<>>
               /\ UNCHANGED <<prog, nloop, keep, rndopt, ub, status, allok>>
               /\ UNCHANGED <<dph, failed>>
  /\ UNCHANGED <<mpf, err, refrnd, fernd, dx, dy, dz, inex_y, inex_z>>
  /\ UNCHANGED <<cnt, gy, gz, gerr>>
  /\ UNCHANGED <<kvars, qvars, xvars>>

\* check_exceptions_aux (ExceptionInputs[hi]), lines 320-350, called by
\* check_exceptions, lines 354-369: three kernel calls, each after clearing
\* one flag, exit (1) when the call leaves that flag raised
CheckExceptionsAux ==
  /\ prog = "exhaustive"
  /\ dph = "idle"
  /\ hpc = "exc"
  /\ \E y \in KernelValues, raised \in RaisedSets :
       LET f1 == feclearexcept(fef, {"inexact"}) \cup raised
           f2 == feclearexcept(f1, {"overflow"}) \cup raised
           f3 == feclearexcept(f2, {"underflow"}) \cup raised
       IN IF "inexact" \in f1 /\ (is_nan_f(y) \/ is_inf_f(y) \/ fabsf(y) = 0)
          THEN Exit1(<<"Error, inexact exception set">>) /\ fef' = f1
          ELSE IF "overflow" \in f2
          THEN Exit1(<<"Error, overflow exception set">>) /\ fef' = f2
          ELSE IF "underflow" \in f3
          THEN Exit1(<<"Error, underflow exception set">>) /\ fef' = f3
          ELSE /\ fef' = f3
               /\ report' = <<>>
               /\ IF hi < Len(ExceptionInputs)
                  THEN hi' = hi + 1 /\ UNCHANGED <<hpc, nloop>>
                  ELSE hpc' = "loop_pos" /\ nloop' = nmin /\ hi' = 1
               /\ UNCHANGED <<prog, keep, rndopt, ub, status, allok>>
               /\ UNCHANGED <<dph, failed>>
  /\ UNCHANGED <<mpf, err, refrnd, fernd, dx, dy, dz, inex_y, inex_z>>
  /\ UNCHANGED <<cnt, gy, gz, gerr>>
  /\ UNCHANGED <<kvars, qvars, xvars>>

\* doloop, lines 394-400: the loop condition fails, "all ok", return 0
LoopEnd ==
  /\ prog = "exhaustive"
  /\ dph = "idle"
  /\ hpc = "loop_pos"
  /\ ~(nloop <= nmax)
  /\ allok' = TRUE
  /\ status' = "0"
  /\ hpc' = "done"
  /\ UNCHANGED <<prog, hi, nloop, keep, rndopt, ub>>
  /\ UNCHANGED <<evars, dvars, gvars, kvars, qvars, xvars>>

\* check_aux of hypot (lines 98-111) and check of log2 (lines 96-101), called
\* from the loops of main: the oracle call
CheckOracle ==
  /\ prog \in {"hypot", "log2"}
  /\ dph = "idle"
  /\ hpc = "random"
  /\ nloop < MaxTests
  /\ \E y \in LdValues, raised \in RaisedSets :
       /\ mpf' = mpfr_flags_clear(mpf, {"inexact"}) \cup raised
       /\ dy' = y
       /\ inex_y' = ("inexact" \in mpf')
       /\ gy' = raised
  /\ refrnd' = ref_fesetround(refrnd, rndopt)
  /\ dph' = "kernel"
  /\ report' = <<>>
  /\ UNCHANGED <<pvars, fef, err, fernd, dx, dz, inex_z, failed, cnt, gz, gerr>>
  /\ UNCHANGED <<kvars, qvars, xvars>>

\* hypot lines 112-117, log2 lines 102-106: the kernel call
CheckKernel ==
  /\ prog \in {"hypot", "log2"}
  /\ dph = "kernel"
  /\ \E z \in LdValues, raised \in RaisedSets :
       /\ fef' = feclearexcept(fef, {"inexact"}) \cup raised
       /\ dz' = z
       /\ inex_z' = ("inexact" \in fef')
       /\ gz' = raised
  /\ fernd' = fesetround(fernd, rndopt)
  /\ dph' = "compare"
  /\ UNCHANGED <<pvars, mpf, err, refrnd, dx, dy, inex_y, report, failed, cnt>>
  /\ UNCHANGED <<gy, gerr, kvars, qvars, xvars>>

\* hypot lines 121-147, log2 lines 107-131: the comparisons, exit (1) on the
\* first mismatch (DO_NOT_ABORT is not defined)
CheckCompare ==
  /\ prog \in {"hypot", "log2"}
  /\ dph = "compare"
  /\ LET equal == IF prog = "hypot" THEN is_equal_hypot(dz, dy)
                  ELSE is_equal_log2(dy, dz)
         msgs == Msg(~equal, "FAIL")
                 \o Msg(~inex_y /\ inex_z, "Spurious inexact")
                 \o Msg(inex_y /\ ~inex_z, "Missing inexact")
     IN IF msgs # <<>>
        THEN Exit1(<<Head(msgs)>>)
        ELSE /\ report' = <<>>
             /\ dph' = "idle"
             /\ IF prog = "hypot" /\ hi < 8
                THEN hi' = hi + 1 /\ UNCHANGED nloop
                ELSE hi' = 1 /\ nloop' = nloop + 1
             /\ UNCHANGED <<prog, hpc, keep, rndopt, ub, status, allok, failed>>
  /\ LocalsGone
  /\ UNCHANGED <<evars, cnt, kvars, qvars, xvars>>

\* main of a check_special harness: the loop is over, return 0
MainReturn ==
  /\ prog \in {"hypot", "log2"}
  /\ dph = "idle"
  /\ hpc = "random"
  /\ ~(nloop < MaxTests)
  /\ status' = "0"
  /\ hpc' = "done"
  /\ UNCHANGED <<prog, hi, nloop, keep, rndopt, ub, allok>>
  /\ UNCHANGED <<evars, dvars, gvars, kvars, qvars, xvars>>

\* the steps of check_exhaustive
NextExhaustive ==
  \/ DoitOracle
  \/ DoitKernel
  \/ DoitCompare
  \/ CheckSignalingNan
  \/ CheckExceptionsAux
  \/ LoopEnd

NextHarness ==
  \/ NextExhaustive
  \/ CheckOracle
  \/ CheckKernel
  \/ CheckCompare
  \/ MainReturn

\* rounding option and processor (underflow before rounding or after) of the
\* runs of check_exhaustive
ExhaustiveRuns ==
  {[rnd |-> RNDN, ub |-> FALSE], [rnd |-> RNDZ, ub |-> TRUE],
   [rnd |-> RNDU, ub |-> FALSE], [rnd |-> RNDD, ub |-> TRUE]}

\* the process after main has parsed its options (--rndn/z/u/d, --keep) and,
\* in check_exhaustive, after check_underflow_before
InitHarness ==
  /\ KernelOff
  /\ EqualOff
  /\ ExtrasOff
  /\ prog \in {"exhaustive", "hypot", "log2"}
  /\ keep \in (IF prog = "exhaustive" THEN {0, 1} ELSE {0})
  /\ \E run \in (IF prog = "exhaustive" THEN ExhaustiveRuns
                 ELSE [rnd : Modes, ub : {FALSE}]) :
       rndopt = run.rnd /\ ub = run.ub
  /\ hpc = (IF prog = "exhaustive" THEN "special" ELSE "random")
  /\ hi = 1 /\ nloop = 0 /\ status = "running" /\ allok = FALSE
  /\ mpf = {} /\ fef = {} /\ err = "0"
  /\ refrnd = (IF prog = "exhaustive" THEN RNDN ELSE rndopt)
  /\ fernd = (IF prog = "hypot" THEN rndopt ELSE RNDN)
  /\ dph = "idle" /\ dx = 0 /\ dy = NoResult /\ dz = NoResult
  /\ inex_y = FALSE /\ inex_z = FALSE /\ report = <<>>
  /\ failed = FALSE /\ cnt = [u \in uint32_t |-> 0]
  /\ gy = {} /\ gz = {} /\ gerr = "0"

SpecHarness == InitHarness /\ [][NextHarness]_vars

\* check_exhaustive run without --keep: a run in which no mismatch occurs
\* never reads keep, so these are all the runs without mismatch.  The process
\* is never suspended for ever: it runs until it exits or returns.
InitSweep == InitHarness /\ prog = "exhaustive" /\ keep = 0
SpecSweep == InitSweep /\ [][NextExhaustive]_vars /\ WF_vars(NextExhaustive)

(***************************************************************************)
(* The random-sampling loops of binary80/hypot/check_special.c and         *)
(* binary80/log2/check_special.c, run by NThreads worker threads.          *)
(***************************************************************************)

\* bits a draw of rand() or rand_r() contributes: HalfBits - 1 bits to each
\* of the two low pieces of the significand, its low bit (hypot) or its two
\* low bits (log2, the bits that survive << 62) to the top piece, and
\* ExpBits + 1 bits to the sign-and-exponent word
PieceBits == HalfBits - 1
RandPiece == 0 .. 2 ^ PieceBits - 1
RandTop == 0 .. 3
RandExp == 0 .. 2 * SIGN - 1

\* static long double get_random (int tid), hypot
get_random_hypot(r1, r2, r3, r4) ==
  LET m == r1 + r2 * 2 ^ PieceBits + (r3 % 2) * 2 ^ (MBits - 2)
      e == r4
      t == IF e % SIGN # 0 THEN 1 ELSE 0
  IN [m |-> m + t * MSB, e |-> e]

\* static long double get_random (), log2
get_random_log2(r1, r2, r3, r4) ==
  LET m0 == r1 + r2 * 2 ^ PieceBits + ((r3 * 2 ^ (MBits - 2)) % TwoM)
      e == r4
      m1 == IF e # EMASK /\ e # SIGN + EMASK THEN (m0 % MSB) + MSB ELSE m0
      m2 == IF e = 0 THEN m1 % MSB ELSE m1
  IN [m |-> m2, e |-> e]

\* one call of get_random by thread t: four draws from Seed[t] (hypot) or
\* from the state of rand() (log2)
GetRandom(t) ==
  \E r1 \in RandPiece, r2 \in RandPiece, r3 \in RandTop, r4 \in RandExp :
    /\ gx' = [v |-> IF sprog = "hypot" THEN get_random_hypot(r1, r2, r3, r4)
                    ELSE get_random_log2(r1, r2, r3, r4),
              tid |-> t]
    /\ IF sprog = "hypot"
       THEN /\ Seed' = [Seed EXCEPT ![t] = @ + 4]
            /\ acc' = acc \cup {[loc |-> <<"Seed", t>>, tid |-> t]}
            /\ UNCHANGED randst
       ELSE /\ randst' = randst + 4
            /\ acc' = acc \cup {[loc |-> <<"rand", 0>>, tid |-> t]}
            /\ UNCHANGED Seed

\* thread t starts an iteration of the loop: x = get_random
SampleX(t) ==
  /\ sprog \in {"hypot", "log2"}
  /\ tpc[t] = "idle"
  /\ nleft > 0
  /\ nleft' = nleft - 1
  /\ tpc' = [tpc EXCEPT ![t] = IF sprog = "hypot" THEN "y" ELSE "check"]
  /\ GetRandom(t)
  /\ UNCHANGED <<sprog, kvars, hvars, qvars, kr1, kout, cvars, rvars>>

\* hypot: y = get_random (tid)
SampleY(t) ==
  /\ sprog = "hypot"
  /\ tpc[t] = "y"
  /\ tpc' = [tpc EXCEPT ![t] = "check"]
  /\ GetRandom(t)
  /\ UNCHANGED <<sprog, nleft, kvars, hvars, qvars, kr1, kout, cvars, rvars>>

\* check (x, y) or check (x) returns and the iteration ends
SampleChecked(t) ==
  /\ sprog \in {"hypot", "log2"}
  /\ tpc[t] = "check"
  /\ tpc' = [tpc EXCEPT ![t] = "idle"]
  /\ UNCHANGED <<sprog, nleft, Seed, randst, gx, acc, kvars, hvars, qvars,
                 kr1, kout, cvars, rvars>>

NextSample ==
  \/ \E t \in Threads : SampleX(t)
  \/ \E t \in Threads : SampleY(t)
  \/ \E t \in Threads : SampleChecked(t)

InitSample ==
  /\ KernelOff
  /\ HarnessOff
  /\ EqualOff
  /\ ExtendedOff
  /\ ReduceOff
  /\ sprog \in {"hypot", "log2"}
  /\ nleft = MaxTests
  /\ tpc = [t \in Threads |-> "idle"]
  /\ Seed = [t \in Threads |-> 0]
  /\ randst = 0
  /\ gx = NoSample
  /\ acc = {}

SpecSample == InitSample /\ [][NextSample]_vars

(***************************************************************************)
(* check_extended of binary80/log2/check_special.c.                        *)
(***************************************************************************)

\* exponent of the smallest subnormal, -16445 in the source
MIN_EXP == 2 - BIAS - MBits

\* long double r = frexpl (x, &e): x = r*2^e with 0.5 <= r < 1; r is given
\* by its significand r * 2^MBits
frexpl(x) ==
  [r |-> x.m * 2 ^ clz(x.m),
   e |-> (IF ExpField(x) = 0 THEN 1 ELSE ExpField(x)) - BIAS + 1 - clz(x.m)]

\* ldexpl (r, f) under rounding mode rnd
ldexpl(r, f, rnd) ==
  LET E == f - 1 + BIAS
      sh == 1 - E
      q == r \div 2 ^ sh
      rem == r % 2 ^ sh
      half == 2 ^ (sh - 1)
      up == \/ rnd = RNDU /\ rem > 0
            \/ rnd = RNDN /\ (rem > half \/ (rem = half /\ q % 2 = 1))
      m == IF up THEN q + 1 ELSE q
  IN IF E >= EMASK THEN PlusInf
     ELSE IF E >= 1 THEN [m |-> r, e |-> E]
     ELSE IF sh > MBits THEN (IF rnd = RNDU THEN [m |-> 1, e |-> 0] ELSE PlusZero)
     ELSE IF m >= MSB THEN [m |-> m, e |-> 1]
     ELSE [m |-> m, e |-> 0]

\* while (f >= 2 * K) K = 2 * K;
RECURSIVE GrowK(_, _)
GrowK(f, K) == IF f >= 2 * K THEN GrowK(f, 2 * K) ELSE K

\* check_extended without the exclusion of 2^k = e
ExtendedRange_NoHalving(e) ==
  LET f == IF e >= 0 THEN e ELSE -e
      K == GrowK(f, 1)
  IN IF e = 0 \/ e = 1 THEN [emin |-> e, emax |-> e]
     ELSE IF e < 0 THEN [emin |-> 2 * (-K) + 1, emax |-> -K]
     ELSE [emin |-> K + 1, emax |-> 2 * K]

\* lines 156-173: emin and emax from e
ExtendedRange(e) ==
  LET f == IF e >= 0 THEN e ELSE -e
      K == GrowK(f, 1)
      K2 == IF K = e THEN K \div 2 ELSE K
  IN IF e = 0 \/ e = 1 THEN [emin |-> e, emax |-> e]
     ELSE IF e < 0 THEN [emin |-> 2 * (-K) + 1, emax |-> -K]
     ELSE [emin |-> K2 + 1, emax |-> 2 * K2]

\* lines 138-174: the early return, the two assertions, frexpl and the range
CheckExtendedRange ==
  /\ cepc = "entry"
  /\ IF IsNaN(cex) \/ IsInf(cex) \/ IsZero(cex)
     THEN cepc' = "return" /\ UNCHANGED <<cer, cee, efrexp, emin, emax>>
     ELSE IF SignBit(cex) = 1
     THEN cepc' = "abort" /\ UNCHANGED <<cer, cee, efrexp, emin, emax>>
     ELSE LET fr == frexpl(cex)
              rg == ExtendedRange(fr.e)
          IN /\ cer' = fr.r
             /\ cee' = fr.e
             /\ efrexp' = fr.e
             /\ emin' = rg.emin
             /\ emax' = rg.emax
             /\ cepc' = IF rg.emin <= fr.e /\ fr.e <= rg.emax
                        THEN "clamp" ELSE "abort"
  /\ UNCHANGED <<cex, cernd, checked, kvars, hvars, qvars, kr1, kout, svars, rvars>>

\* lines 176-178: if (emin < -16445) emin = -16445; e = emin
CheckExtendedClamp ==
  /\ cepc = "clamp"
  /\ emin' = IF emin < MIN_EXP THEN MIN_EXP ELSE emin
  /\ cee' = emin'
  /\ cepc' = "loop"
  /\ UNCHANGED <<cex, cer, emax, efrexp, cernd, checked, kvars, hvars, qvars,
                 kr1, kout, svars, rvars>>

\* lines 178-179: one iteration of the loop, or its end
CheckExtendedLoop ==
  /\ cepc = "loop"
  /\ IF cee <= emax
     THEN /\ checked' = checked \cup {[f |-> cee, v |-> ldexpl(cer, cee, cernd)]}
          /\ cee' = cee + 1
          /\ UNCHANGED cepc
     ELSE /\ cepc' = "return"
          /\ UNCHANGED <<cee, checked>>
  /\ UNCHANGED <<cex, cer, emin, emax, efrexp, cernd, kvars, hvars, qvars,
                 kr1, kout, svars, rvars>>

NextExtended ==
  \/ CheckExtendedRange
  \/ CheckExtendedClamp
  \/ CheckExtendedLoop

InitExtended ==
  /\ KernelOff
  /\ HarnessOff
  /\ EqualOff
  /\ SamplingOff
  /\ ReduceOff
  /\ cepc = "entry"
  /\ cex \in LongDoubles
  /\ cernd \in Modes
  /\ cer = 0 /\ cee = 0 /\ emin = 0 /\ emax = 0 /\ efrexp = 0
  /\ checked = {}

SpecExtended == InitExtended /\ [][NextExtended]_vars

(***************************************************************************)
(* cr_exp2l's argument reduction at the width of the source: x is the      *)
(* 80-bit encoding b96u96_u, v.m a uint64_t kept as four 16-bit limbs      *)
(* (most significant first), k, i and e are int32_t.                       *)
(***************************************************************************)
Limb == 2 ^ 16
INT32_MAX == 2147483647
INT32_MIN == -INT32_MAX - 1

\* v.e & 0x7fff, v.e >> 15 and the unbiased exponent (v.e&0x7fff) - 0x3fff
X_EMASK == 32767
X_BIAS == 16383
XExp(v) == v.e % (X_EMASK + 1)
XNeg(v) == v.e \div (X_EMASK + 1) = 1

\* uint64_t a + b: the sum modulo 2^64 and the carry out
Add64(a, b) ==
  LET s0 == a[4] + b[4]
      s1 == a[3] + b[3] + s0 \div Limb
      s2 == a[2] + b[2] + s1 \div Limb
      s3 == a[1] + b[1] + s2 \div Limb
  IN [m |-> <<s3 % Limb, s2 % Limb, s1 % Limb, s0 % Limb>>,
      carry |-> s3 \div Limb]

\* 1l << p for 0 <= p <= 63
Shl1l(p) == [j \in 1 .. 4 |-> IF 4 - j = p \div 16 THEN 2 ^ (p % 16) ELSE 0]

\* a >> n for 0 <= n <= 63
Shr64(a, n) ==
  LET q == n \div 16
      r == n % 16
      src(j) == IF j >= 1 /\ j <= 4 THEN a[j] ELSE 0
  IN [j \in 1 .. 4 |->
        src(j - q) \div 2 ^ r + (src(j - q - 1) % 2 ^ r) * 2 ^ (16 - r)]

\* bit p of a, 0 <= p <= 63
Bit64(a, p) == (a[4 - p \div 16] \div 2 ^ (p % 16)) % 2

\* a < b as uint64_t
Less64(a, b) ==
  \E j \in 1 .. 4 : a[j] < b[j] /\ \A i \in 1 .. j - 1 : a[i] = b[i]

\* what a shift by a count outside 0..63 gives (undefined in C): the count
\* taken modulo 64 (x86-64), all bits shifted out, or, for the left shift
\* of the constant 1l, all bits set
ShiftOutcomes == [shl : {"masked", "zero", "ones"}, shr : {"masked", "zero"}]

\* lines 458 and 463: 1l << (s-1)
HalfUlp(s, sh) ==
  IF 0 <= s - 1 /\ s - 1 <= 63 THEN Shl1l(s - 1)
  ELSE IF sh.shl = "masked" THEN Shl1l((s - 1) % 64)
  ELSE IF sh.shl = "ones" THEN <<Limb - 1, Limb - 1, Limb - 1, Limb - 1>>
  ELSE Zero64

\* line 467: m >>= s
ShiftRight(m, s, sh) ==
  IF 0 <= s /\ s <= 63 THEN Shr64(m, s)
  ELSE IF sh.shr = "masked" THEN Shr64(m, s % 64)
  ELSE Zero64

\* lines 468-469: m = (m^sgn) - sgn; int32_t k = m
ToInt32(m, neg) ==
  LET u == IF m[3] >= Limb \div 2 THEN (m[3] - Limb) * Limb + m[4]
           ELSE m[3] * Limb + m[4]
  IN IF neg /\ u # INT32_MIN THEN -u ELSE u

\* line 454: s = 48 - exponent
S_ONE == 48

\* fast_path without the branch of lines 461-464
FastReduce_NoCarry(v, sh) ==
  LET s0 == S_ONE - (XExp(v) - X_BIAS)
      a0 == Add64(v.m, HalfUlp(s0, sh))
      m2 == IF s0 > 63 THEN Zero64 ELSE a0.m
  IN [s |-> s0, k |-> ToInt32(ShiftRight(m2, s0, sh), XNeg(v))]

\* fast_path, lines 451-469: the shift s and the integer k
FastReduce(v, sh) ==
  LET s0 == S_ONE - (XExp(v) - X_BIAS)
      a0 == Add64(v.m, HalfUlp(s0, sh))
      s == IF a0.carry = 1 THEN s0 - 1 ELSE s0
      m1 == IF a0.carry = 1
            THEN Add64(Shr64(v.m, 1), HalfUlp(s, sh)).m
            ELSE a0.m
      m2 == IF s > 63 THEN Zero64 ELSE m1
  IN [s |-> s0, k |-> ToInt32(ShiftRight(m2, s, sh), XNeg(v))]

\* accurate_path, line 712: int32_t k = __builtin_roundl (0x1p15L * x).
\* The product is exact (|x| < 2^15); roundl rounds to the nearest integer,
\* halfway cases away from zero; a value outside int32_t converts to the
\* integer indefinite value
AccurateReduce(v) ==
  LET s0 == S_ONE - (XExp(v) - X_BIAS)
      mag == IF s0 > 64 THEN 0
             ELSE IF s0 = 64 THEN Bit64(v.m, 63)
             ELSE ToInt32(Shr64(v.m, s0), FALSE) + Bit64(v.m, s0 - 1)
  IN IF s0 < 34 THEN INT32_MIN
     ELSE IF XNeg(v) THEN -mag ELSE mag

\* line 479: the constants of i = (k + 538869760) & 32767
K_OFFSET == 538869760
I_MASK == 32767

\* the table indices with i1 = i >> 5
TableIndex_NoMask(k) ==
  LET wraps == k > INT32_MAX - K_OFFSET
      sum == IF wraps THEN (k + INT32_MIN) + (K_OFFSET + INT32_MIN)
             ELSE k + K_OFFSET
      i == sum % (I_MASK + 1)
  IN [i |-> i, e |-> (k - i) \div 2 ^ 15,
      i0 |-> i % 32, i1 |-> i \div 2 ^ 5, i2 |-> i \div 2 ^ 10,
      wraps |-> wraps]

\* lines 479-481 and 716-720: i = (k + 538869760) & 32767,
\* e = (k - i) >> 15, i0 = i & 0x1f, i1 = (i >> 5) & 0x1f, i2 = i >> 10;
\* wraps tells that k + 538869760 left int32_t (the sum is then taken
\* modulo 2^32)
TableIndex(k) ==
  LET wraps == k > INT32_MAX - K_OFFSET
      sum == IF wraps THEN (k + INT32_MIN) + (K_OFFSET + INT32_MIN)
             ELSE k + K_OFFSET
      i == sum % (I_MASK + 1)
  IN [i |-> i, e |-> (k - i) \div 2 ^ 15,
      i0 |-> i % 32, i1 |-> (i \div 2 ^ 5) % 32, i2 |-> i \div 2 ^ 10,
      wraps |-> wraps]

\* the thresholds of cr_exp2l: 0x1p+14L has e = 16397, -0x1.00f8p+14L is
\* -16446, 0x1.71547652b82fe176p-64L has e = 16319
X_OVF_E == 16397
X_TINY_E == 16319
X_MSB == <<32768, 0, 0, 0>>
X_UNF_M == <<32892, 0, 0, 0>>
X_LOG2E_M == <<47274, 15145, 23575, 61627>>

\* cr_exp2l with the overflow test passed by every x < 2^15
Exp2Route_OverflowFrom32768(v) ==
  LET e == XExp(v)
      below(c, ce) == e < ce \/ (e = ce /\ ~Less64(c, v.m))
  IN IF e >= X_OVF_E /\ e = X_EMASK
       THEN IF XNeg(v) /\ v.m = X_MSB THEN "minus_inf" ELSE "nan_or_inf"
     ELSE IF e > X_OVF_E /\ ~XNeg(v) THEN "overflow"
     ELSE IF e >= X_OVF_E /\ (e > X_OVF_E \/ ~Less64(v.m, X_UNF_M))
       THEN "underflow"
     ELSE IF e <= X_TINY_E /\ (~XNeg(v) \/ (e = 0 /\ v.m = Zero64))
               /\ below(X_LOG2E_M, X_TINY_E)
       THEN "tiny_pos"
     ELSE IF e <= X_TINY_E /\ XNeg(v) /\ below(X_LOG2E_M, X_TINY_E - 1)
       THEN "tiny_neg"
     ELSE "numeric"

\* cr_exp2l with the underflow test x <= -16447
Exp2Route_UnderflowFrom16447(v) ==
  LET e == XExp(v)
      below(c, ce) == e < ce \/ (e = ce /\ ~Less64(c, v.m))
  IN IF e >= X_OVF_E /\ e = X_EMASK
       THEN IF XNeg(v) /\ v.m = X_MSB THEN "minus_inf" ELSE "nan_or_inf"
     ELSE IF e >= X_OVF_E /\ ~XNeg(v) THEN "overflow"
     ELSE IF e >= X_OVF_E /\ (e > X_OVF_E \/ ~Less64(v.m, <<32894, 0, 0, 0>>))
       THEN "underflow"
     ELSE IF e <= X_TINY_E /\ (~XNeg(v) \/ (e = 0 /\ v.m = Zero64))
               /\ below(X_LOG2E_M, X_TINY_E)
       THEN "tiny_pos"
     ELSE IF e <= X_TINY_E /\ XNeg(v) /\ below(X_LOG2E_M, X_TINY_E - 1)
       THEN "tiny_neg"
     ELSE "numeric"

\* cr_exp2l, lines 755-786: the branch x takes before fast_path
Exp2Route(v) ==
  LET e == XExp(v)
      below(c, ce) == e < ce \/ (e = ce /\ ~Less64(c, v.m))
  IN IF e >= X_OVF_E /\ e = X_EMASK
       THEN IF XNeg(v) /\ v.m = X_MSB THEN "minus_inf" ELSE "nan_or_inf"
     ELSE IF e >= X_OVF_E /\ ~XNeg(v) THEN "overflow"
     ELSE IF e >= X_OVF_E /\ (e > X_OVF_E \/ ~Less64(v.m, X_UNF_M))
       THEN "underflow"
     ELSE IF e <= X_TINY_E /\ (~XNeg(v) \/ (e = 0 /\ v.m = Zero64))
               /\ below(X_LOG2E_M, X_TINY_E)
       THEN "tiny_pos"
     ELSE IF e <= X_TINY_E /\ XNeg(v) /\ below(X_LOG2E_M, X_TINY_E - 1)
       THEN "tiny_neg"
     ELSE "numeric"

\* cr_exp2l (x) as far as the reduction goes: the early returns, fast_path,
\* and accurate_path when the rounding test of lines 794-797 fails
Exp2Reduction(v, sh, fails) ==
  LET route == Exp2Route(v)
      f == FastReduce(v, sh)
      ka == AccurateReduce(v)
  IN IF route # "numeric" THEN [NoReduce EXCEPT !.route = route]
     ELSE [route |-> route, s |-> f.s, kf |-> f.k, fi |-> TableIndex(f.k),
           acc |-> fails,
           ka |-> IF fails THEN ka ELSE 0,
           ai |-> IF fails THEN TableIndex(ka) ELSE NoIndex]

CallExp2lWide ==
  /\ rpc = "call"
  /\ \E sh \in ShiftOutcomes, fails \in BOOLEAN :
       rr' = Exp2Reduction(rx, sh, fails)
  /\ rpc' = "ret"
  /\ UNCHANGED <<rx, kvars, hvars, qvars, kr1, kout, svars, cvars>>

\* arguments around every threshold of cr_exp2l and fast_path: exponents
\* next to 0, 2^-65..2^-63, 2^-17..2^-15, 1, 2^13..2^15 and the maximum;
\* significands next to 1, 0x1.00f8, 0x1.71547652b82fe176 and 2
WideExps ==
  {0, 1, 16317, 16318, 16319, 16320, 16365, 16366, 16367, 16368, 16382,
   16383, 16384, 16396, 16397, 16398, 32766, 32767}
WideSigs ==
  {<<a3, a2, a1, a0>> :
     a3 \in {32768, 32891, 32892, 47274, 65535},
     a2 \in {0, 15145, 65535},
     a1 \in {0, 2, 23575, 65535},
     a0 \in {0, 1, 61627, 61628, 65535}}
WideArgs ==
  {[m |-> m, e |-> sg * (X_EMASK + 1) + e] :
     m \in WideSigs, e \in WideExps \ {0}, sg \in {0, 1}}
  \cup {[m |-> m, e |-> sg * (X_EMASK + 1)] :
          m \in {Zero64, <<0, 0, 0, 1>>, <<32767, 65535, 65535, 65535>>},
          sg \in {0, 1}}

InitWide ==
  /\ KernelOff
  /\ HarnessOff
  /\ EqualOff
  /\ SamplingOff
  /\ ExtendedOff
  /\ rpc = "call"
  /\ rx \in WideArgs
  /\ rr = NoReduce

SpecWide == InitWide /\ [][CallExp2lWide]_vars

(***************************************************************************)
(* Properties of the special-value dispatch (SpecSpecial).                 *)
(***************************************************************************)
Abs(v) == [m |-> v.m, e |-> ExpField(v)]

SNaNCall == kpc = "ret" /\ (IsSNaN(ax) \/ (fn = "hypotl" /\ IsSNaN(ay)))

\* C1: for every signaling-NaN input of either sign each kernel returns a
\* quiet NaN (signaling bit cleared), in either argument of cr_hypotl.
C1_SNaNReturnsQuietNaN == SNaNCall => IsQNaN(kr.f)

InfNaNCall ==
  /\ kpc = "ret"
  /\ fn = "hypotl"
  /\ (IsInf(ax) /\ IsNaN(ay)) \/ (IsNaN(ax) /\ IsInf(ay))

\* C2 as stated: cr_hypotl of an infinity and any NaN, in either order, is +Inf.
C2_InfAnyNaNIsInf == InfNaNCall => kr.f = PlusInf

\* C2 amended: cr_hypotl of an infinity (either sign) and a quiet NaN, in
\* either order, is +Inf; with a signaling NaN the result is a quiet NaN.
C2_InfQuietNaNIsInf ==
  InfNaNCall =>
    IF IsSNaN(ax) \/ IsSNaN(ay) THEN IsQNaN(kr.f) ELSE kr.f = PlusInf

C2_Witness ==
  /\ InfNaNCall
  /\ IsInf(ax) /\ SignBit(ax) = 1
  /\ IsQNaN(ay)
  /\ kr.f = PlusInf

ZeroCall ==
  /\ kpc = "ret"
  /\ fn = "hypotl"
  /\ (IsFinite(ax) /\ IsZero(ay)) \/ (IsZero(ax) /\ IsFinite(ay))

\* C3: cr_hypotl of a finite x and a zero of either sign, in either order,
\* is x with only its sign bit cleared; hypot(+-0, +-0) is +0.
C3_HypotWithZeroIsAbs ==
  ZeroCall => kr.f = (IF IsZero(ay) THEN Abs(ax) ELSE Abs(ay))

C3_Witness ==
  /\ ZeroCall
  /\ IsZero(ax) /\ SignBit(ax) = 1
  /\ SignBit(ay) = 1 /\ ExpField(ay) = 0 /\ ay.m # 0
  /\ kr.f = Abs(ay)

IsSpecialResult(v) == IsNaN(v) \/ IsInf(v) \/ IsZero(v)

BypassCall ==
  /\ kpc = "ret"
  /\ IsSpecial(ax) \/ (fn = "hypotl" /\ IsSpecial(ay))
  /\ IsSpecialResult(kr.f)

\* C4: when an input is NaN, +-Inf or +-0 and the output is NaN, Inf or 0,
\* the inexact, overflow and underflow flags are the same after the call as
\* before it.
C4_BypassKeepsFlags ==
  BypassCall => kr.fl \cap Checked3 = fl0 \cap Checked3

C4_Witness ==
  /\ BypassCall
  /\ fn = "hypotl"
  /\ IsSNaN(ax) /\ IsInf(ay)
  /\ fl0 = {}
  /\ kr.fl = {"invalid"}

(***************************************************************************)
(* Exactness of sqrt(x^2 + y^2) for finite x, y, decided on the values and *)
(* not on the kernel's intermediate quantities.  A finite v is the integer *)
(* v.m * 2^Scale(v) in units of the smallest subnormal.                    *)
(***************************************************************************)
Scale(v) == IF ExpField(v) = 0 THEN 0 ELSE ExpField(v) - 1

MagLess(u, v) ==
  ExpField(u) < ExpField(v) \/ (ExpField(u) = ExpField(v) /\ u.m < v.m)

RECURSIVE TrailingZeros(_)
TrailingZeros(n) == IF n % 2 = 1 THEN 0 ELSE 1 + TrailingZeros(n \div 2)

\* w * 2^a (units of the smallest subnormal) is a finite long double
Representable(w, a) ==
  LET tz == TrailingZeros(w)
      odd == w \div 2 ^ tz
  IN \E i \in 0 .. MBits :
       /\ odd * 2 ^ i < TwoM
       /\ tz + a - i >= 0
       /\ tz + a - i <= EMASK - 2

\* sqrt(x^2 + y^2) is a finite long double
HypotExact(x, y) ==
  LET b == IF MagLess(x, y) THEN y ELSE x
      s == IF MagLess(x, y) THEN x ELSE y
      D == Scale(b) - Scale(s)
  IN IF s.m = 0 THEN TRUE
     ELSE /\ D <= WBits
          /\ \E j \in 1 .. s.m :
               /\ j * (b.m * 2 ^ (D + 1) + j) = s.m * s.m
               /\ Representable(b.m * 2 ^ D + j, Scale(s))

\* C5: for finite inputs and flags clear on entry cr_hypotl returns with
\* inexact set iff sqrt(x^2+y^2) is not exactly representable; in the exact
\* case of the general path the flag register equals the one saved at entry.
C5_InexactIffNotExact ==
  kpc = "ret" =>
    /\ ("inexact" \in kr.fl) <=> ~HypotExact(ax, ay)
    /\ (kr.path = "general" /\ kr.exact) => kr.fl = fl0

C5_Witness ==
  /\ kpc = "ret"
  /\ kr.path = "general"
  /\ kr.exact
  /\ kr.nf = {"inexact"}
  /\ ay.m # 0
  /\ kr.fl = {}

(***************************************************************************)
(* Properties of the result comparison (SpecEqual).                        *)
(***************************************************************************)
\* NaN by the format: exponent field all ones and a non-zero fraction
NaNPattern(h, a) ==
  IF h = "exhaustive"
  THEN (a % FSIGN) \div 2 ^ FManBits = FEMAX /\ a % 2 ^ FManBits # 0
  ELSE IsNaN(a)

\* C6: in every harness is_equal(a, b) is true exactly when both are NaN or
\* neither is NaN and the bit patterns are identical (+0 and -0 differ).
C6_IsEqualIsBitIdentity ==
  eqr # "pending" =>
    ((eqr = "equal") <=>
       \/ NaNPattern(eqh, eqa) /\ NaNPattern(eqh, eqb)
       \/ ~NaNPattern(eqh, eqa) /\ ~NaNPattern(eqh, eqb) /\ eqa = eqb)

(***************************************************************************)
(* Properties of the harness processes (SpecHarness, SpecSweep).           *)
(***************************************************************************)
\* a step of check_exhaustive that ends a check (doit, check_signaling_nan,
\* check_exceptions_aux) which printed a message
MismatchStep ==
  /\ prog = "exhaustive"
  /\ dph = "compare" \/ hpc \in {"snan", "exc"}
  /\ report' # <<>>

Terminates == status' = "1" /\ hpc' = "exit"

\* C7 as stated: in check_exhaustive a detected mismatch (value, flag, errno,
\* sNaN or special-value exception check) terminates the process with status
\* 1 if and only if --keep was not given.
C7_MismatchTerminatesIffNotKeep ==
  [][MismatchStep => (Terminates <=> keep = 0)]_vars

\* C7 amended: a mismatch detected by doit terminates the process with status
\* 1 if and only if --keep was not given; a mismatch detected by
\* check_signaling_nan or check_exceptions terminates it whatever --keep is;
\* a check without mismatch never terminates it.
C7_DoitMismatchTerminatesIffNotKeep ==
  [][/\ MismatchStep => (Terminates <=> (keep = 0 \/ hpc \in {"snan", "exc"}))
     /\ (prog = "exhaustive" /\ status' = "1") => report' # <<>>
     /\ (prog = "exhaustive" /\ keep = 0 /\ failed') => status' = "1"]_vars

C7_Witness ==
  /\ prog = "exhaustive"
  /\ keep = 1
  /\ hpc = "loop_neg"
  /\ dph = "idle"
  /\ status = "running"
  /\ report = <<"Missing errno=ERANGE">>

\* C8: check_exhaustive exits with status 0 and prints "all ok" only when no
\* mismatch was detected during the run; after any mismatch, also one logged
\* under --keep, the exit status is 1.
C8_ExitZeroOnlyOnFullSuccess ==
  prog = "exhaustive" =>
    /\ (status = "0" \/ allok) => ~failed
    /\ (failed /\ hpc \in {"done", "exit"}) => status = "1"

\* zeros, subnormals and finite normals: the exponent field is not all ones
FinitePattern(u) == (u % FSIGN) \div 2 ^ FManBits # FEMAX

Swept ==
  /\ \A u \in 0 .. (FSIGN - 2 ^ FManBits - 1) :
       cnt[u] = 1 /\ cnt[u + FSIGN] = 1
  /\ \A u \in uint32_t : FinitePattern(u) => cnt[u] = 1

\* C9: when no mismatch occurs doloop terminates, having called doit exactly
\* once on every pattern 0 <= n <= 0x7f7fffff and once on n | 0x80000000 (all
\* zeros, subnormals and finite normals); the loop counter never wraps.
C9_SweepCoversFinitePatternsOnce ==
  /\ [](prog = "exhaustive" =>
          /\ hpc = "done" => Swept
          /\ \A u \in uint32_t : FinitePattern(u) => cnt[u] <= 1
          /\ nloop <= FSIGN - 2 ^ FManBits /\ nloop + 1 < TwoF)
  /\ <>(prog = "exhaustive" => (failed \/ (hpc = "done" /\ Swept)))

C9_Witness ==
  /\ prog = "exhaustive"
  /\ hpc = "done"
  /\ ~failed
  /\ nloop = nmax + 1
  /\ cnt[nmax] = 1 /\ cnt[nmax + FSIGN] = 1 /\ cnt[0] = 1 /\ cnt[FSIGN] = 1

\* C10: in every per-input check each compared flag (oracle and hardware
\* inexact/underflow/overflow, errno; inexact only in the check_special
\* harnesses) holds, when the comparisons start, exactly what the oracle or
\* kernel call of this check raised: what earlier checks left was cleared.
C10_ComparedFlagsAreOfThisCheck ==
  /\ (prog = "exhaustive" /\ dph \in {"kernel", "compare"}) =>
       /\ mpf \cap Checked3 = gy
       /\ inex_y = ("inexact" \in gy)
  /\ (prog = "exhaustive" /\ dph = "compare") =>
       /\ fef \cap Checked3 = gz
       /\ inex_z = ("inexact" \in gz)
       /\ err = gerr
  /\ (prog \in {"hypot", "log2"} /\ dph \in {"kernel", "compare"}) =>
       inex_y = ("inexact" \in gy)
  /\ (prog \in {"hypot", "log2"} /\ dph = "compare") =>
       inex_z = ("inexact" \in gz)

\* an earlier check left overflow, inexact and ERANGE behind; the oracle of
\* the running check raised nothing and its kernel is about to be called
C10_Witness ==
  /\ prog = "exhaustive"
  /\ dph = "kernel"
  /\ hpc = "loop_pos"
  /\ gy = {}
  /\ fef = {"inexact", "overflow"}
  /\ err = "ERANGE"
  /\ failed

\* C11: at every comparison of a kernel result with an oracle result the
\* oracle mode is the selected index rnd and the hardware mode is rnd1[rnd],
\* whatever modes were in force when the check began.
C11_ModesSetBeforeComparison ==
  /\ dph \in {"kernel", "compare"} => refrnd = rndopt
  /\ dph = "compare" => fernd = rndopt

\* the first doit after check_underflow_before left FE_TONEAREST, run with
\* --rndu
C11_Witness ==
  /\ prog = "exhaustive"
  /\ hpc = "special" /\ hi = 1
  /\ dph = "compare"
  /\ rndopt = RNDU
  /\ fernd = RNDU /\ refrnd = RNDU

InSeq(text, msgs) == \E i \in 1 .. Len(msgs) : msgs[i] = text

\* the step of doit that makes the comparisons, for an oracle result that is
\* exact (the oracle call left the MPFR inexact flag clear)
ExactCompareStep ==
  /\ prog = "exhaustive"
  /\ dph = "compare"
  /\ dph' = "idle"
  /\ "inexact" \notin gy

\* the underflow comparison is reached: no exit at the value comparison
UnderflowCompared == keep = 1 \/ is_equal_f(dy, dz)

C13_ErrnoFollowsResult ==
  (kpc = "ret" /\ IsFinite(ax)) =>
    /\ kerrno = "ERANGE" <=>
         \/ "overflow" \in kr.fl
         \/ "underflow" \in kr.fl
         \/ IsInf(kr.f) /\ "inexact" \notin kr.fl
    /\ kerrno = "EDOM" <=> IsNaN(kr.f)

\* the call evaluated the rounding test left == right of the fast path
RoundingTested == kpc = "ret" /\ kr.path \in {"fast", "accurate", "placeholder"}

\* C15: cr_cbrtl and cr_exp2l return the fast-path value only when the rounding
\* test passes; when it fails they return the result of the accurate path,
\* never a placeholder.
C15_FailedRoundingTestFallsBack ==
  RoundingTested =>
    /\ kr.path = "fast" => (kout.num.ok /\ kr.f = kout.num.fast)
    /\ ~kout.num.ok => (kr.path = "accurate" /\ kr.f = kout.num.acc)

(***************************************************************************)
(* Properties of the parallel random-sampling loops (SpecSample).          *)
(***************************************************************************)

\* C16: inside the parallel sampling loops, a generator state is read and
\* written by one worker thread only.
C16_GeneratorStateIsThreadPrivate ==
  \A a \in acc : \A b \in acc : a.loc = b.loc => a.tid = b.tid

\* C17: a value returned by get_random has bit 63 clear when its exponent
\* field is zero, and bit 63 set when the field is neither zero nor all ones.
C17_SampleEncodingConsistent ==
  gx.tid # -1 =>
    /\ ExpField(gx.v) = 0 => gx.v.m < MSB
    /\ ExpField(gx.v) \notin {0, EMASK} => gx.v.m >= MSB

(***************************************************************************)
(* Properties of check_extended (SpecExtended).                            *)
(***************************************************************************)

\* e and f lie in the same power-of-two interval
SameInterval(e, f) ==
  IF e \in {0, 1} THEN f = e
  ELSE IF e >= 2
  THEN \E k \in 0 .. ExpBits :
         2 ^ k < e /\ e <= 2 ^ (k + 1) /\ 2 ^ k < f /\ f <= 2 ^ (k + 1)
  ELSE \E k \in 0 .. ExpBits :
         /\ -(2 ^ (k + 1)) < e /\ e <= -(2 ^ k)
         /\ -(2 ^ (k + 1)) < f /\ f <= -(2 ^ k)

PositiveFinite(x) == SignBit(x) = 0 /\ IsFinite(x) /\ ~IsZero(x)

Larger(x, y) ==
  IF ExpField(x) < ExpField(y) \/ (ExpField(x) = ExpField(y) /\ x.m < y.m)
  THEN y ELSE x
Smaller(x, y) == IF Larger(x, y) = x THEN y ELSE x
NormSig(v) == v.m * 2 ^ clz(v.m)

\* next representable value above a non-negative finite v
NextAbove(v) ==
  IF v.m + 1 = TwoM THEN [m |-> MSB, e |-> v.e + 1]
  ELSE IF v.e = 0 /\ v.m + 1 = MSB THEN [m |-> MSB, e |-> 1]
  ELSE [m |-> v.m + 1, e |-> v.e]

\* a call that returned from the branch d >= 32
FarCall == kpc = "ret" /\ fn = "hypotl" /\ kr.path = "far"

\* C20: when the normalized exponents of finite nonzero x and y differ by 32
\* or more, cr_hypotl returns |x| under RNDZ and RNDD, the successor of |x|
\* under RNDU, and under RNDN the successor only when d = 32 and
\* y^2 > m + 1/4, else |x|.
C20_FarArgumentsReturnAbsOrSuccessor ==
  FarCall =>
    LET big == Abs(Larger(ax, ay))
        m == NormSig(big)
        yy == NormSig(Smaller(ax, ay)) * NormSig(Smaller(ax, ay))
        succ == \/ mode = RNDU
                \/ mode = RNDN /\ kr.d = HalfBits /\ yy > m * TwoM + QBIT
    IN kr.f = (IF succ THEN NextAbove(big) ELSE big)

(***************************************************************************)
(* Properties of the eight calls of check (x, y) (SpecVariants).           *)
(***************************************************************************)

\* C19: the calls of cr_hypotl on (+-x, +-y) and (+-y, +-x) all return the
\* same bits, or all return a NaN.
C19_HypotSymmetricSignInsensitive ==
  (kpc = "ret2" /\ kr1.path = "first") =>
    \/ kr.f = kr1.f
    \/ IsNaN(kr.f) /\ IsNaN(kr1.f)

\* a call on swapped, negated finite arguments returned what the first call
\* on the positive pair returned
C19_Witness ==
  /\ kpc = "ret2"
  /\ kr1.path = "first"
  /\ kr.path = "general"
  /\ SignBit(ax) = 1
  /\ SignBit(ay) = 1
  /\ ExpField(ax) < ExpField(ay)
  /\ kr.f = kr1.f

(***************************************************************************)
(* Properties of repeated kernel calls (SpecTwice).                        *)
(***************************************************************************)

NormExp(v) == (IF ExpField(v) = 0 THEN 1 - clz(v.m) ELSE ExpField(v)) - BIAS

\* a call that computed hh and ll, and one that reached the correction step
NearCall == kpc = "ret" /\ fn = "hypotl" /\ kr.path \in {"general", "overflow"}
GeneralCall == kpc = "ret" /\ fn = "hypotl" /\ kr.path = "general"

\* C21: with 0 <= d < 32, hh + ll/2^128 equals mx^2 + my^2/2^(2d) exactly,
\* or a quarter of it when the sum wrapped and x_exp was incremented, and
\* 2^126 <= hh < 2^128.
C21_SquaresSumExact ==
  NearCall =>
    LET mx == NormSig(Larger(ax, ay))
        my == NormSig(Smaller(ax, ay))
        sum == mx * mx * TwoW + (my * my * TwoW) \div 2 ^ (2 * kr.d)
        v == kr.hh1 * TwoW + kr.ll1
        x_exp == NormExp(Larger(ax, ay))
    IN /\ 0 <= kr.d /\ kr.d < HalfBits
       /\ ((my * my * TwoW) % 2 ^ (2 * kr.d)) = 0
       /\ IF kr.ovf THEN 4 * v = sum /\ kr.xexp1 = x_exp + 1
          ELSE v = sum /\ kr.xexp1 = x_exp
       /\ 2 ^ (WBits - 2) <= kr.hh1 /\ kr.hh1 < TwoW

\* the sum wrapped and bits of hh moved into ll
C21_Witness ==
  /\ NearCall
  /\ kr.ovf
  /\ kr.d > 0
  /\ kr.ll1 >= 2 ^ (WBits - 2)

\* C22: when the estimate th entering the correction step is within 1 of
\* floor(sqrt(hh)), after the step th = floor(sqrt(hh)) and r = hh - th^2
\* with 0 <= r < 2*th + 1.
C22_CorrectionGivesFloorSqrt ==
  (GeneralCall /\ \E e \in {-1, 0, 1} :
                    /\ (kr.th1 + e) * (kr.th1 + e) <= kr.hh
                    /\ kr.hh < (kr.th1 + e + 1) * (kr.th1 + e + 1)) =>
    /\ kr.th * kr.th <= kr.hh
    /\ kr.hh < (kr.th + 1) * (kr.th + 1)
    /\ kr.r = kr.hh - kr.th * kr.th
    /\ 0 <= kr.r /\ kr.r < 2 * kr.th + 1

\* the estimate was too large and was decremented
C22_Witness ==
  /\ GeneralCall
  /\ kr.th1 = kr.th + 1
  /\ kr.th * kr.th <= kr.hh

\* C23: the final significand is sqrt(hh + ll/2^128) correctly rounded: th
\* when the value is exact or the mode is RNDZ or RNDD, th + 1 under RNDU when
\* inexact, under RNDN th + 1 iff the value exceeds (th + 1/2)^2 or equals it
\* with th odd; when th + 1 = 2^64 the significand is 2^63 and the exponent
\* one more.
C23_FinalSignificandCorrectlyRounded ==
  (GeneralCall /\ kr.th * kr.th <= kr.hh /\ kr.hh < (kr.th + 1) * (kr.th + 1)) =>
    LET v == kr.hh * TwoW + kr.ll
        mid == (kr.th * kr.th + kr.th) * TwoW + 2 ^ (WBits - 2)
        isExact == kr.hh = kr.th * kr.th /\ kr.ll = 0
        up == /\ ~isExact
              /\ \/ mode = RNDU
                 \/ mode = RNDN /\ (v > mid \/ (v = mid /\ kr.th % 2 = 1))
        sig == IF up THEN kr.th + 1 ELSE kr.th
    IN /\ kr.f.m = (IF sig = TwoM THEN MSB ELSE sig)
       /\ kr.f.e = kr.xexp + BIAS + (IF sig = TwoM THEN 1 ELSE 0)

\* round-to-nearest went up to 2^64 and the exponent was incremented
C23_Witness ==
  /\ GeneralCall
  /\ mode = RNDN
  /\ kr.th = TwoM - 1
  /\ kr.f.m = MSB
  /\ kr.f.e = kr.xexp + BIAS + 1

\* C25: in the subnormal-result branch 1 <= k <= 63, the 2k bits shifted out
\* of (hh, ll) are zero, and hh + ll/2^128 after the shift is the previous
\* value divided by 4^k.
C25_SubnormalShiftExact ==
  (GeneralCall /\ kr.xexp1 < -(BIAS - 1)) =>
    /\ kr.k = -(BIAS - 1) - kr.xexp1
    /\ 1 <= kr.k /\ kr.k <= MBits - 1
    /\ kr.ll1 % 2 ^ (2 * kr.k) = 0
    /\ (kr.hh * TwoW + kr.ll) * 2 ^ (2 * kr.k) = kr.hh1 * TwoW + kr.ll1

\* a shift by two or more places of an inexact square root
C25_Witness ==
  /\ GeneralCall
  /\ kr.k >= 2
  /\ kr.hh * 2 ^ (2 * kr.k) = kr.hh1
  /\ ~kr.exact

(***************************************************************************)
(* Properties of the overflow test of cr_hypotl (SpecTail).                *)
(***************************************************************************)

\* C24: with x_exp = 0x3fff under RNDN, +Inf is returned if and only if
\* hh + ll/2^128 >= (2^64 - 1/2)^2, that is hh > HT or hh = HT with
\* ll >= 2^126; every smaller value gives a finite result.
C24_NearestOverflowsFromMidpoint ==
  (kpc = "ret" /\ kr.path \in {"general", "overflow"}
     /\ kr.xexp1 = BIAS /\ mode = RNDN) =>
    (kr.f = PlusInf <=>
       kr.hh1 * TwoW + kr.ll1 >= HT * TwoW + 2 ^ (WBits - 2))

(***************************************************************************)
(* Properties of cr_exp2l's argument reduction (SpecWide).                 *)
(***************************************************************************)
ReachesFastPath == rpc = "ret" /\ rr.route = "numeric"

\* the unbiased exponent of x
WideExp(v) == XExp(v) - X_BIAS

\* 0x1.71547652b82fe176p-64 < x < 16384, or
\* -16446 < x < -0x1.71547652b82fe176p-65, for a normal encoding x
InFastDomain(v) ==
  LET e == WideExp(v)
      log2e == X_LOG2E_M
  IN /\ XExp(v) \in 1 .. X_EMASK - 1
     /\ IF XNeg(v)
        THEN /\ e > -65 \/ (e = -65 /\ Less64(log2e, v.m))
             /\ e < 14 \/ (e = 14 /\ Less64(v.m, <<32892, 0, 0, 0>>))
        ELSE /\ e > -64 \/ (e = -64 /\ Less64(log2e, v.m))
             /\ e < 14

\* C26: cr_exp2l calls fast_path exactly for the finite x with
\* -16446 < x < -0x1.71547652b82fe176p-65 or
\* 0x1.71547652b82fe176p-64 < x < 16384: NaN and the infinities, x >= 16384,
\* x <= -16446 and the tiny x (with +0 and -0) return before it; for every x
\* that reaches fast_path the unbiased exponent is in [-65, 14] and the shift
\* s = 48 - exponent is in [34, 113].
C26_FastPathCalledInsideItsDomain ==
  rpc = "ret" =>
    /\ rr.route = "numeric" <=> InFastDomain(rx)
    /\ XExp(rx) = X_EMASK => rr.route \in {"minus_inf", "nan_or_inf"}
    /\ rr.route \in {"tiny_pos", "tiny_neg"} => WideExp(rx) <= -64
    /\ rr.route = "overflow" => ~XNeg(rx) /\ WideExp(rx) >= 14
    /\ rr.route = "underflow" => XNeg(rx) /\ WideExp(rx) >= 14
    /\ rr.route = "numeric" =>
         /\ WideExp(rx) \in -65 .. 14
         /\ rr.s = 48 - WideExp(rx)
         /\ rr.s \in 34 .. 113
C26_Witness ==
  /\ ReachesFastPath
  /\ rr.s = 113
  /\ rx.m = <<47274, 15145, 23575, 61628>>

\* |x| * 2^15 lies within 1/2 of mag, and halfway cases are rounded up
NearestAway(v, mag) ==
  LET s == 48 - WideExp(v)
  IN IF s > 64 THEN mag = 0
     ELSE IF s = 64 THEN mag = 1
     ELSE mag = ToInt32(Shr64(v.m, s), FALSE) + Bit64(v.m, s - 1)

\* C27: for every x that reaches fast_path, whatever the out-of-range shifts
\* of lines 458-467 give, the k of fast_path is 2^15 * x rounded to the
\* nearest integer with halfway cases away from zero, carries the sign of x,
\* and is the k accurate_path computes for the same x.
C27_FastAndAccurateReduceAlike ==
  ReachesFastPath =>
    /\ NearestAway(rx, IF XNeg(rx) THEN -rr.kf ELSE rr.kf)
    /\ rr.kf = AccurateReduce(rx)
    /\ rr.acc => rr.ka = rr.kf
C27_Witness ==
  /\ ReachesFastPath
  /\ rr.acc
  /\ rr.s = 35
  /\ rx.m = <<65535, 65535, 65535, 65535>>
  /\ rr.kf = 2 ^ 29

GoodIndex(k, idx) ==
  /\ ~idx.wraps
  /\ idx.i0 \in 0 .. 31 /\ idx.i1 \in 0 .. 31 /\ idx.i2 \in 0 .. 31
  /\ k = idx.e * 2 ^ 15 + idx.i2 * 2 ^ 10 + idx.i1 * 2 ^ 5 + idx.i0
  /\ idx.e * 2 ^ 15 <= k /\ k < (idx.e + 1) * 2 ^ 15

\* C29: for every k the reduction produces, in fast_path and in
\* accurate_path, k + 538869760 stays inside int32_t, the indices i0, i1, i2
\* are in 0..31, k = e*2^15 + i2*2^10 + i1*2^5 + i0 and e = floor(k / 2^15).
C29_TableIndicesInBounds ==
  ReachesFastPath =>
    /\ GoodIndex(rr.kf, rr.fi)
    /\ rr.acc => GoodIndex(rr.ka, rr.ai)
C29_Witness ==
  /\ ReachesFastPath
  /\ rr.kf < -16445 * 2 ^ 15
  /\ rr.fi.e = -16446
  /\ rr.fi.i2 > 0
  /\ rr.fi.i0 > 0

====
